---------------------------- MODULE Spec2Model ----------------------------
(***************************************************************************)
(* Model of the wandb client core:                                         *)
(*   - the leveldb-style log store (wandb/sdk/internal/datastore.py),      *)
(*   - the record router (wandb/sdk_py27/internal/handler.py),             *)
(*   - the sender and its defer state machine                              *)
(*     (wandb/sdk/internal/sender.py).                                     *)
(*                                                                         *)
(* Byte strings are sequences of 0..255.  A 32-bit word (a CRC) is kept as *)
(* its four little-endian bytes, because TLC integers are 32-bit signed.   *)
(* The block length of the log is scaled down (BlockLen); every length the *)
(* model uses is derived from it exactly as the source derives it from     *)
(* LEVELDBLOG_BLOCK_LEN.                                                   *)
(***************************************************************************)
EXTENDS Integers, Sequences, FiniteSets, TLC

(***************************************************************************)
(* Bounds of the model.                                                    *)
(***************************************************************************)
\* scaled value of LEVELDBLOG_BLOCK_LEN (32768 in the source)
BlockLen == 64
\* calls of _write_data per log file
MaxAppends == 2
\* direct calls of _write_record per log file
MaxRaw == 3
\* chunks of the largest log file the environment alters
MaxAltered == 1

(***************************************************************************)
(* datastore.py: constants                                                 *)
(***************************************************************************)
LEVELDBLOG_HEADER_LEN == 7
LEVELDBLOG_BLOCK_LEN == BlockLen
LEVELDBLOG_DATA_LEN == LEVELDBLOG_BLOCK_LEN - LEVELDBLOG_HEADER_LEN

LEVELDBLOG_FULL == 1
LEVELDBLOG_FIRST == 2
LEVELDBLOG_MIDDLE == 3
LEVELDBLOG_LAST == 4

\* ":W&B" in iso8859-1
LEVELDBLOG_HEADER_IDENT == <<58, 87, 38, 66>>
\* 0xBEE1
LEVELDBLOG_HEADER_MAGIC == 48865
LEVELDBLOG_HEADER_VERSION == 0

Byte == 0..255

Min(a, b) == IF a < b THEN a ELSE b

(***************************************************************************)
(* zlib.crc32 (CRC-32, reflected polynomial 0xEDB88320), on 4-byte words.  *)
(***************************************************************************)
RECURSIVE XorBits(_, _, _)
XorBits(a, b, n) ==
    IF n = 0 THEN 0
    ELSE ((a + b) % 2) + 2 * XorBits(a \div 2, b \div 2, n - 1)

\* a XOR b for bytes
xor8 == [a \in Byte |-> [b \in Byte |-> XorBits(a, b, 8)]]

\* w1 XOR w2 for 32-bit words
xor32(w1, w2) ==
    <<xor8[w1[1]][w2[1]], xor8[w1[2]][w2[2]],
      xor8[w1[3]][w2[3]], xor8[w1[4]][w2[4]]>>

\* w >> 1
shr1(w) ==
    <<(w[1] \div 2) + (w[2] % 2) * 128, (w[2] \div 2) + (w[3] % 2) * 128,
      (w[3] \div 2) + (w[4] % 2) * 128, w[4] \div 2>>

\* w >> 8
shr8(w) == <<w[2], w[3], w[4], 0>>

\* 0xEDB88320
CRC_POLY == <<32, 131, 184, 237>>
\* 0xFFFFFFFF
WORD_ONES == <<255, 255, 255, 255>>

RECURSIVE crc_table_entry(_, _)
crc_table_entry(c, k) ==
    IF k = 0 THEN c
    ELSE crc_table_entry(IF c[1] % 2 = 1 THEN xor32(CRC_POLY, shr1(c))
                                           ELSE shr1(c), k - 1)

crc_table == [n \in Byte |-> crc_table_entry(<<n, 0, 0, 0>>, 8)]

RECURSIVE crc_update(_, _, _)
crc_update(c, data, i) ==
    IF i > Len(data) THEN c
    ELSE LET c1 == xor32(crc_table[xor8[c[1]][data[i]]], shr8(c))
         IN IF c1 = c1 THEN crc_update(c1, data, i + 1) ELSE c1

\* zlib.crc32(data, value) & 0xFFFFFFFF
crc32(data, value) == xor32(crc_update(xor32(value, WORD_ONES), data, 1), WORD_ONES)

\* DataStore.__init__: self._crc[x] = zlib.crc32(chr(x)), self._crc[0] = 0
_crc == [x \in 0..LEVELDBLOG_LAST |->
           IF x = 0 THEN <<0, 0, 0, 0>> ELSE crc32(<<x>>, <<0, 0, 0, 0>>)]

(***************************************************************************)
(* struct.pack / struct.unpack, little-endian.                             *)
(***************************************************************************)
\* "<H"
pack_H(n) == <<n % 256, (n \div 256) % 256>>
unpack_H(b) == b[1] + 256 * b[2]

\* "<IHB": checksum (already 4 little-endian bytes), length, type
pack_IHB(checksum, dlength, dtype) == checksum \o pack_H(dlength) \o <<dtype>>

\* "<4sHB" of the file header
HeaderBytes ==
    LEVELDBLOG_HEADER_IDENT \o pack_H(LEVELDBLOG_HEADER_MAGIC)
        \o <<LEVELDBLOG_HEADER_VERSION>>

Zeros(n) == [i \in 1..n |-> 0]


(***************************************************************************)
(* State.                                                                  *)
(*   file   the log file on disk: [exists, data]                           *)
(*   ds     the DataStore instance: mode, _index, the read position of     *)
(*          _fp, _opened_for_scan and the exception an open raised         *)
(*   wlog   history: one entry per _write_data / _write_record call made   *)
(*          on the file (payload, returned extent, padding, chunks)        *)
(*   rlog   history: the outcome of every scan_data call of the current    *)
(*          scan session                                                   *)
(*   env    history: how the file came to be (sessions, raw chunk writes,  *)
(*          corruption applied by the environment)                         *)
(***************************************************************************)
VARIABLES file, ds, wlog, rlog, env

storeVars == <<file, ds, wlog, rlog, env>>

NoExc == "none"

(***************************************************************************)
(* datastore.py: writing                                                   *)
(***************************************************************************)
\* A write in progress: the bytes written so far by this call (out), the
\* instance's _index, the chunks written and the exception raised, if any.
WState(out, index, chunks, exc) ==
    [out |-> out, index |-> index, chunks |-> chunks, exc |-> exc]

\* DataStore._write_record(s, dtype) applied to a write in progress
_write_record(w, s, dtype) ==
    IF w.exc # NoExc THEN w
    ELSE IF ~(Len(s) + LEVELDBLOG_HEADER_LEN
                <= LEVELDBLOG_BLOCK_LEN - (w.index % LEVELDBLOG_BLOCK_LEN))
    THEN [w EXCEPT !.exc = "AssertionError: record does not fit"]
    ELSE LET dlength == Len(s)
             checksum == crc32(s, _crc[dtype])
         IN WState(w.out \o pack_IHB(checksum, dlength, dtype) \o s,
                   w.index + LEVELDBLOG_HEADER_LEN + Len(s),
                   Append(w.chunks, [dtype |-> dtype, dlength |-> dlength,
                                     at |-> w.index]),
                   NoExc)

\* the "write middles" loop of _write_data
RECURSIVE WriteMiddles(_, _, _, _)
WriteMiddles(w, s, data_used, data_left) ==
    IF data_left > LEVELDBLOG_DATA_LEN
    THEN WriteMiddles(
             _write_record(w, SubSeq(s, data_used + 1,
                                     data_used + LEVELDBLOG_DATA_LEN),
                           LEVELDBLOG_MIDDLE),
             s, data_used + LEVELDBLOG_DATA_LEN,
             data_left - LEVELDBLOG_DATA_LEN)
    ELSE \* write last
         _write_record(w, SubSeq(s, data_used + 1, Len(s)), LEVELDBLOG_LAST)

\* _write_data with the fit test "<" in place of "<=": a payload that fills
\* the block exactly is split
_write_data_strict_fit(index, s) ==
    LET file_offset == index
        offset0 == index % LEVELDBLOG_BLOCK_LEN
        space_left0 == LEVELDBLOG_BLOCK_LEN - offset0
        data_left == Len(s)
        padded == space_left0 < LEVELDBLOG_HEADER_LEN
        pad == IF padded THEN Zeros(space_left0) ELSE <<>>
        index1 == IF padded THEN index + space_left0 ELSE index
        space_left == IF padded THEN LEVELDBLOG_BLOCK_LEN ELSE space_left0
        w0 == WState(pad, index1, <<>>, NoExc)
        w == IF data_left + LEVELDBLOG_HEADER_LEN < space_left
             THEN _write_record(w0, s, LEVELDBLOG_FULL)
             ELSE LET data_room == space_left - LEVELDBLOG_HEADER_LEN
                      w1 == _write_record(w0, SubSeq(s, 1, data_room),
                                          LEVELDBLOG_FIRST)
                  IN WriteMiddles(w1, s, data_room, data_left - data_room)
    IN [out |-> w.out, index |-> w.index, pad |-> Len(pad),
        chunks |-> w.chunks, exc |-> w.exc,
        ret |-> <<file_offset, w.index - file_offset>>]

\* _write_data that writes no padding when fewer than 7 bytes are left in
\* the block
_write_data_no_pad(index, s) ==
    LET file_offset == index
        offset0 == index % LEVELDBLOG_BLOCK_LEN
        space_left == LEVELDBLOG_BLOCK_LEN - offset0
        data_left == Len(s)
        w0 == WState(<<>>, index, <<>>, NoExc)
        w == IF data_left + LEVELDBLOG_HEADER_LEN <= space_left
             THEN _write_record(w0, s, LEVELDBLOG_FULL)
             ELSE LET data_room == space_left - LEVELDBLOG_HEADER_LEN
                      first == IF data_room >= 0 THEN SubSeq(s, 1, data_room)
                               ELSE SubSeq(s, 1, Len(s) + data_room)
                      w1 == _write_record(w0, first, LEVELDBLOG_FIRST)
                  IN WriteMiddles(w1, s, Len(first), data_left - Len(first))
    IN [out |-> w.out, index |-> w.index, pad |-> 0,
        chunks |-> w.chunks, exc |-> w.exc,
        ret |-> <<file_offset, w.index - file_offset>>]

\* _write_data that takes file_offset after the padding is written
_write_data_offset_after_pad(index, s) ==
    LET offset0 == index % LEVELDBLOG_BLOCK_LEN
        space_left0 == LEVELDBLOG_BLOCK_LEN - offset0
        data_left == Len(s)
        padded == space_left0 < LEVELDBLOG_HEADER_LEN
        pad == IF padded THEN Zeros(space_left0) ELSE <<>>
        index1 == IF padded THEN index + space_left0 ELSE index
        file_offset == index1
        space_left == IF padded THEN LEVELDBLOG_BLOCK_LEN ELSE space_left0
        w0 == WState(pad, index1, <<>>, NoExc)
        w == IF data_left + LEVELDBLOG_HEADER_LEN <= space_left
             THEN _write_record(w0, s, LEVELDBLOG_FULL)
             ELSE LET data_room == space_left - LEVELDBLOG_HEADER_LEN
                      w1 == _write_record(w0, SubSeq(s, 1, data_room),
                                          LEVELDBLOG_FIRST)
                  IN WriteMiddles(w1, s, data_room, data_left - data_room)
    IN [out |-> w.out, index |-> w.index, pad |-> Len(pad),
        chunks |-> w.chunks, exc |-> w.exc,
        ret |-> <<file_offset, w.index - file_offset>>]

\* DataStore._write_data(s) on an instance whose _index is index.
\* Result: the bytes written, the new _index, the padding written, the
\* chunks, the exception, and the returned (file_offset, length).
_write_data(index, s) ==
    LET file_offset == index
        offset0 == index % LEVELDBLOG_BLOCK_LEN
        space_left0 == LEVELDBLOG_BLOCK_LEN - offset0
        data_left == Len(s)
        padded == space_left0 < LEVELDBLOG_HEADER_LEN
        pad == IF padded THEN Zeros(space_left0) ELSE <<>>
        index1 == IF padded THEN index + space_left0 ELSE index
        space_left == IF padded THEN LEVELDBLOG_BLOCK_LEN ELSE space_left0
        w0 == WState(pad, index1, <<>>, NoExc)
        w == IF data_left + LEVELDBLOG_HEADER_LEN <= space_left
             THEN _write_record(w0, s, LEVELDBLOG_FULL)
             ELSE LET data_room == space_left - LEVELDBLOG_HEADER_LEN
                      w1 == _write_record(w0, SubSeq(s, 1, data_room),
                                          LEVELDBLOG_FIRST)
                  IN IF data_left - data_room = 0
                     THEN [w1 EXCEPT !.exc =
                              IF w1.exc # NoExc THEN w1.exc
                              ELSE "AssertionError: data_left"]
                     ELSE WriteMiddles(w1, s, data_room, data_left - data_room)
    IN [out |-> w.out, index |-> w.index, pad |-> Len(pad),
        chunks |-> w.chunks, exc |-> w.exc,
        ret |-> <<file_offset, w.index - file_offset>>]

\* DataStore._write_header
_write_header(index) ==
    [out |-> HeaderBytes, index |-> index + Len(HeaderBytes)]

(***************************************************************************)
(* datastore.py: scanning                                                  *)
(***************************************************************************)
\* self._fp.read(n) at position pos (0-based): short at end of file
Read(f, pos, n) == SubSeq(f, pos + 1, Min(pos + n, Len(f)))

\* the result of scan_record / scan_data: what was returned or raised, the
\* new read position and _index, and the chunk types read by the call
SRes(kind, data, pos, index, types, exc) ==
    [kind |-> kind, data |-> data, pos |-> pos, index |-> index,
     types |-> types, exc |-> exc]

\* scan_record without the comparison of the stored and computed checksum
scan_record_unchecked(f, pos, index) ==
    LET header == Read(f, pos, LEVELDBLOG_HEADER_LEN)
    IN IF Len(header) = 0
       THEN SRes("eof", <<>>, pos, index, <<>>, NoExc)
       ELSE IF Len(header) # LEVELDBLOG_HEADER_LEN
       THEN SRes("raise", <<>>, pos + Len(header), index, <<>>,
                 "AssertionError: short header")
       ELSE LET dlength == unpack_H(SubSeq(header, 5, 6))
                dtype == header[7]
                data == Read(f, pos + LEVELDBLOG_HEADER_LEN, dlength)
                pos1 == pos + LEVELDBLOG_HEADER_LEN + Len(data)
                index1 == index + LEVELDBLOG_HEADER_LEN
            IN IF dtype > LEVELDBLOG_LAST
               THEN SRes("raise", <<>>, pos1, index1, <<dtype>>,
                         "IndexError: _crc")
               ELSE SRes("rec", data, pos1, index1 + dlength, <<dtype>>,
                         NoExc)

\* DataStore.scan_record; kind "rec" carries (dtype, data)
scan_record(f, pos, index) ==
    LET header == Read(f, pos, LEVELDBLOG_HEADER_LEN)
    IN IF Len(header) = 0
       THEN SRes("eof", <<>>, pos, index, <<>>, NoExc)
       ELSE IF Len(header) # LEVELDBLOG_HEADER_LEN
       THEN SRes("raise", <<>>, pos + Len(header), index, <<>>,
                 "AssertionError: short header")
       ELSE LET checksum == SubSeq(header, 1, 4)
                dlength == unpack_H(SubSeq(header, 5, 6))
                dtype == header[7]
                data == Read(f, pos + LEVELDBLOG_HEADER_LEN, dlength)
                pos1 == pos + LEVELDBLOG_HEADER_LEN + Len(data)
                index1 == index + LEVELDBLOG_HEADER_LEN
            IN IF dtype > LEVELDBLOG_LAST
               THEN SRes("raise", <<>>, pos1, index1, <<dtype>>,
                         "IndexError: _crc")
               ELSE IF checksum # crc32(data, _crc[dtype])
               THEN SRes("raise", <<>>, pos1, index1, <<dtype>>,
                         "AssertionError: checksum")
               ELSE SRes("rec", data, pos1, index1 + dlength, <<dtype>>,
                         NoExc)

\* the loop of scan_data without "assert dtype == LEVELDBLOG_MIDDLE"
RECURSIVE ScanRest_any_type(_, _, _, _, _)
ScanRest_any_type(f, pos, index, data, types) ==
    LET record == scan_record(f, pos, index)
        types1 == types \o record.types
    IN IF record.kind = "eof"
       THEN SRes("eof", <<>>, record.pos, record.index, types1, NoExc)
       ELSE IF record.kind = "raise"
       THEN [record EXCEPT !.types = types1]
       ELSE IF record.types[1] = LEVELDBLOG_LAST
       THEN SRes("data", data \o record.data, record.pos, record.index,
                 types1, NoExc)
       ELSE ScanRest_any_type(f, record.pos, record.index,
                              data \o record.data, types1)

\* the "while True" loop of scan_data, after a FIRST chunk
RECURSIVE ScanRest(_, _, _, _, _)
ScanRest(f, pos, index, data, types) ==
    LET record == scan_record(f, pos, index)
        types1 == types \o record.types
    IN IF record.kind = "eof"
       THEN SRes("eof", <<>>, record.pos, record.index, types1, NoExc)
       ELSE IF record.kind = "raise"
       THEN [record EXCEPT !.types = types1]
       ELSE IF record.types[1] = LEVELDBLOG_LAST
       THEN SRes("data", data \o record.data, record.pos, record.index,
                 types1, NoExc)
       ELSE IF record.types[1] # LEVELDBLOG_MIDDLE
       THEN SRes("raise", <<>>, record.pos, record.index, types1,
                 "AssertionError: dtype == MIDDLE")
       ELSE ScanRest(f, record.pos, record.index, data \o record.data, types1)

\* scan_data that forgets the FIRST chunk's bytes ("data = new_data" for
\* "data += new_data")
scan_data_last_only(f, pos, index) ==
    LET offset == index % LEVELDBLOG_BLOCK_LEN
        space_left == LEVELDBLOG_BLOCK_LEN - offset
        padded == space_left < LEVELDBLOG_HEADER_LEN
        pad == IF padded THEN Read(f, pos, space_left) ELSE <<>>
        pos1 == pos + Len(pad)
        index1 == IF padded THEN index + space_left ELSE index
    IN IF padded /\ pad # Zeros(space_left)
       THEN SRes("raise", <<>>, pos1, index, <<>>, "AssertionError: pad")
       ELSE LET record == scan_record(f, pos1, index1)
            IN IF record.kind = "eof"
               THEN SRes("eof", <<>>, record.pos, record.index, <<>>, NoExc)
               ELSE IF record.kind = "raise"
               THEN record
               ELSE IF record.types[1] = LEVELDBLOG_FULL
               THEN SRes("data", record.data, record.pos, record.index,
                         record.types, NoExc)
               ELSE IF record.types[1] # LEVELDBLOG_FIRST
               THEN SRes("raise", <<>>, record.pos, record.index,
                         record.types, "AssertionError: dtype == FIRST")
               ELSE ScanRest(f, record.pos, record.index, <<>>,
                             record.types)

\* scan_data that skips the padding without comparing it with zeros
scan_data_pad_unchecked(f, pos, index) ==
    LET offset == index % LEVELDBLOG_BLOCK_LEN
        space_left == LEVELDBLOG_BLOCK_LEN - offset
        padded == space_left < LEVELDBLOG_HEADER_LEN
        pad == IF padded THEN Read(f, pos, space_left) ELSE <<>>
        pos1 == pos + Len(pad)
        index1 == IF padded THEN index + space_left ELSE index
        record == scan_record(f, pos1, index1)
    IN IF record.kind = "eof"
       THEN SRes("eof", <<>>, record.pos, record.index, <<>>, NoExc)
       ELSE IF record.kind = "raise"
       THEN record
       ELSE IF record.types[1] = LEVELDBLOG_FULL
       THEN SRes("data", record.data, record.pos, record.index,
                 record.types, NoExc)
       ELSE IF record.types[1] # LEVELDBLOG_FIRST
       THEN SRes("raise", <<>>, record.pos, record.index,
                 record.types, "AssertionError: dtype == FIRST")
       ELSE ScanRest(f, record.pos, record.index, record.data,
                     record.types)

\* scan_data that returns the chunks read so far when the file ends inside
\* a record ("return data" for "return None" in the loop)
scan_data_partial(f, pos, index) ==
    LET offset == index % LEVELDBLOG_BLOCK_LEN
        space_left == LEVELDBLOG_BLOCK_LEN - offset
        padded == space_left < LEVELDBLOG_HEADER_LEN
        pad == IF padded THEN Read(f, pos, space_left) ELSE <<>>
        pos1 == pos + Len(pad)
        index1 == IF padded THEN index + space_left ELSE index
    IN IF padded /\ pad # Zeros(space_left)
       THEN SRes("raise", <<>>, pos1, index, <<>>, "AssertionError: pad")
       ELSE LET record == scan_record(f, pos1, index1)
            IN IF record.kind = "eof"
               THEN SRes("eof", <<>>, record.pos, record.index, <<>>, NoExc)
               ELSE IF record.kind = "raise"
               THEN record
               ELSE IF record.types[1] = LEVELDBLOG_FULL
               THEN SRes("data", record.data, record.pos, record.index,
                         record.types, NoExc)
               ELSE IF record.types[1] # LEVELDBLOG_FIRST
               THEN SRes("raise", <<>>, record.pos, record.index,
                         record.types, "AssertionError: dtype == FIRST")
               ELSE LET rest == ScanRest(f, record.pos, record.index,
                                         record.data, record.types)
                    IN IF rest.kind = "eof"
                       THEN [rest EXCEPT !.kind = "data", !.data = record.data]
                       ELSE rest

\* DataStore.scan_data: kind "data" returns a payload, "eof" returns None
scan_data(f, pos, index) ==
    LET offset == index % LEVELDBLOG_BLOCK_LEN
        space_left == LEVELDBLOG_BLOCK_LEN - offset
        padded == space_left < LEVELDBLOG_HEADER_LEN
        pad == IF padded THEN Read(f, pos, space_left) ELSE <<>>
        pos1 == pos + Len(pad)
        index1 == IF padded THEN index + space_left ELSE index
    IN IF padded /\ pad # Zeros(space_left)
       THEN SRes("raise", <<>>, pos1, index, <<>>, "AssertionError: pad")
       ELSE LET record == scan_record(f, pos1, index1)
            IN IF record.kind = "eof"
               THEN SRes("eof", <<>>, record.pos, record.index, <<>>, NoExc)
               ELSE IF record.kind = "raise"
               THEN record
               ELSE IF record.types[1] = LEVELDBLOG_FULL
               THEN SRes("data", record.data, record.pos, record.index,
                         record.types, NoExc)
               ELSE IF record.types[1] # LEVELDBLOG_FIRST
               THEN SRes("raise", <<>>, record.pos, record.index,
                         record.types, "AssertionError: dtype == FIRST")
               ELSE ScanRest(f, record.pos, record.index, record.data,
                             record.types)

\* _read_header without the test of the version
_read_header_any_version(f) ==
    LET header == Read(f, 0, 7)
    IN IF Len(header) # 7 THEN "struct.error"
       ELSE IF SubSeq(header, 1, 4) # LEVELDBLOG_HEADER_IDENT
       THEN "Exception: Invalid header"
       ELSE IF unpack_H(SubSeq(header, 5, 6)) # LEVELDBLOG_HEADER_MAGIC
       THEN "Exception: Invalid header"
       ELSE NoExc

\* DataStore._read_header: the exception it raises, or NoExc
_read_header(f) ==
    LET header == Read(f, 0, 7)
    IN IF Len(header) # 7 THEN "struct.error"
       ELSE IF SubSeq(header, 1, 4) # LEVELDBLOG_HEADER_IDENT
       THEN "Exception: Invalid header"
       ELSE IF unpack_H(SubSeq(header, 5, 6)) # LEVELDBLOG_HEADER_MAGIC
       THEN "Exception: Invalid header"
       ELSE IF header[7] # LEVELDBLOG_HEADER_VERSION
       THEN "Exception: Invalid header"
       ELSE NoExc


(***************************************************************************)
(* Inputs of the log store.                                                *)
(***************************************************************************)
Pat(n) == [i \in 1..n |-> (i * 37 + n) % 256]

\* Payloads handed to _write_data: empty, one zero byte (the padding byte),
\* payloads that leave 7 and 6 bytes of the first block, one that fills it
\* exactly, one that is one byte longer, one that is one byte longer than a
\* whole block holds, and one that needs a MIDDLE chunk.
Payloads ==
    { <<>>, <<0>>,
      Pat(LEVELDBLOG_DATA_LEN - 14), Pat(LEVELDBLOG_DATA_LEN - 13),
      Pat(LEVELDBLOG_DATA_LEN - 7), Pat(LEVELDBLOG_DATA_LEN - 6),
      Pat(LEVELDBLOG_DATA_LEN + 1), Pat(2 * LEVELDBLOG_DATA_LEN) }

\* Payloads of chunks written by calling _write_record directly
RawPayloads == { <<>>, Pat(6) }

ChunkTypes == LEVELDBLOG_FULL..LEVELDBLOG_LAST

\* Alterations of a stored payload: one flipped bit of one byte, or the
\* XOR of five bytes with the CRC-32 generator polynomial 0x104C11DB7
\* (in the bit order of the reflected CRC).
BitMasks == { <<1>>, <<2>>, <<4>>, <<8>>, <<16>>, <<32>>, <<64>>, <<128>> }
PolyMask == <<65, 6, 113, 219, 1>>

ApplyMask(f, at, mask) ==
    [i \in 1..Len(f) |->
        IF i > at /\ i <= at + Len(mask) THEN xor8[f[i]][mask[i - at]]
        ELSE f[i]]

NoCorrupt == [kind |-> "none", at |-> 0, len |-> 0]

(***************************************************************************)
(* The log store: initial state and operations.                            *)
(***************************************************************************)
\* DataStore.__init__
NewDS == [mode |-> "new", index |-> 0, pos |-> 0,
          opened_for_scan |-> FALSE, exc |-> NoExc]

StoreInit ==
    /\ file = [exists |-> FALSE, data |-> <<>>]
    /\ ds = NewDS
    /\ wlog = <<>>
    /\ rlog = <<>>
    /\ env = [sessions |-> <<>>, corrupt |-> NoCorrupt]

\* a new DataStore() once the previous one is closed or failed to open
NewDataStore ==
    /\ ds.mode \in {"closed", "error"}
    /\ ds' = NewDS
    /\ UNCHANGED <<file, wlog, rlog, env>>

\* open_for_write that opens with "wb" and does not test os.path.exists
open_for_write_overwrites ==
    /\ ds.mode = "new"
    /\ LET h == _write_header(ds.index)
       IN /\ file' = [exists |-> TRUE, data |-> h.out]
          /\ ds' = [ds EXCEPT !.mode = "write", !.index = h.index]
          /\ env' = [env EXCEPT !.sessions = Append(@, "write")]
    /\ UNCHANGED <<wlog, rlog>>

\* DataStore.open_for_write (python 3: mode "xb")
open_for_write ==
    /\ ds.mode = "new"
    /\ IF file.exists
       THEN /\ ds' = [ds EXCEPT !.mode = "error", !.exc = "IOError: File exists"]
            /\ UNCHANGED <<file, env>>
       ELSE LET h == _write_header(ds.index)
            IN /\ file' = [exists |-> TRUE, data |-> h.out]
               /\ ds' = [ds EXCEPT !.mode = "write", !.index = h.index]
               /\ env' = [env EXCEPT !.sessions = Append(@, "write")]
    /\ UNCHANGED <<wlog, rlog>>

\* DataStore.open_for_append: open(fname, "wb") truncates; _index untouched
open_for_append ==
    /\ ds.mode = "new"
    /\ Len(env.sessions) < 2
    /\ file' = [exists |-> TRUE, data |-> <<>>]
    /\ ds' = [ds EXCEPT !.mode = "append"]
    /\ env' = [env EXCEPT !.sessions = Append(@, "append")]
    /\ UNCHANGED <<wlog, rlog>>

WEntry(s, start, r, raw) ==
    [s |-> s, start |-> start, ret |-> r.ret, pad |-> r.pad,
     chunks |-> r.chunks, exc |-> r.exc, raw |-> raw,
     size0 |-> Len(file.data), size1 |-> Len(file.data) + Len(r.out),
     session |-> Len(env.sessions)]

\* DataStore._write_data(s) / DataStore.write(obj) with obj serialized to s
WriteData ==
    /\ ds.mode \in {"write", "append"}
    /\ Len(wlog) < MaxAppends
    /\ \E s \in Payloads :
         LET r == _write_data(ds.index, s)
         IN /\ file' = [file EXCEPT !.data = @ \o r.out]
            /\ ds' = [ds EXCEPT !.index = r.index]
            /\ wlog' = Append(wlog, WEntry(s, ds.index, r, FALSE))
    /\ UNCHANGED <<rlog, env>>

\* DataStore._write_record(s, dtype) called directly, with any chunk type
WriteRecordRaw ==
    /\ ds.mode = "write"
    /\ Len(wlog) < MaxRaw
    /\ \E s \in RawPayloads, dtype \in ChunkTypes :
         LET w == _write_record(WState(<<>>, ds.index, <<>>, NoExc), s, dtype)
             r == [out |-> w.out, index |-> w.index, pad |-> 0,
                   chunks |-> w.chunks, exc |-> w.exc,
                   ret |-> <<ds.index, w.index - ds.index>>]
         IN /\ file' = [file EXCEPT !.data = @ \o r.out]
            /\ ds' = [ds EXCEPT !.index = r.index]
            /\ wlog' = Append(wlog, WEntry(s, ds.index, r, TRUE))
    /\ UNCHANGED <<rlog, env>>

\* DataStore.close
close ==
    /\ ds.mode \in {"write", "append", "scan"}
    /\ ds' = [ds EXCEPT !.mode = "closed"]
    /\ rlog' = <<>>
    /\ UNCHANGED <<file, wlog, env>>

\* DataStore.open_for_scan
open_for_scan ==
    /\ ds.mode = "new"
    /\ LET exc == IF file.exists THEN _read_header(file.data)
                  ELSE "IOError: No such file"
       IN ds' = IF exc = NoExc
                THEN [mode |-> "scan", index |-> 7, pos |-> 7,
                      opened_for_scan |-> TRUE, exc |-> NoExc]
                ELSE [mode |-> "error", index |-> 0,
                      pos |-> IF file.exists THEN Min(7, Len(file.data)) ELSE 0,
                      opened_for_scan |-> file.exists, exc |-> exc]
    /\ rlog' = <<>>
    /\ UNCHANGED <<file, wlog, env>>

\* one call of DataStore.scan_data; the session stops at the first None or
\* exception
ScanData ==
    /\ ds.mode = "scan"
    /\ IF rlog = <<>> THEN TRUE ELSE rlog[Len(rlog)].kind = "data"
    /\ LET r == scan_data(file.data, ds.pos, ds.index)
       IN /\ ds' = [ds EXCEPT !.pos = r.pos, !.index = r.index]
          /\ rlog' = Append(rlog, [kind |-> r.kind, data |-> r.data,
                                   exc |-> r.exc, types |-> r.types,
                                   from |-> ds.pos, to |-> r.pos,
                                   at |-> ds.index])
    /\ UNCHANGED <<file, wlog, env>>

\* The environment alters payload bytes of one stored chunk of the closed
\* file; every chunk header is left intact.
Corrupt ==
    /\ ds.mode = "closed"
    /\ env.corrupt = NoCorrupt
    /\ Len(wlog) <= MaxAltered
    /\ \E k \in 1..Len(wlog) :
         \E c \in 1..Len(wlog[k].chunks) :
           LET ch == wlog[k].chunks[c]
               base == wlog[k].size0 + wlog[k].pad + (ch.at - wlog[k].chunks[1].at)
                         + LEVELDBLOG_HEADER_LEN
           IN \E j \in 0..(ch.dlength - 1), mask \in BitMasks \cup {PolyMask} :
                /\ j + Len(mask) <= ch.dlength
                /\ file' = [file EXCEPT !.data = ApplyMask(@, base + j, mask)]
                /\ env' = [env EXCEPT !.corrupt =
                              [kind |-> IF mask = PolyMask THEN "poly" ELSE "bit",
                               at |-> base + j, len |-> Len(mask)]]
    /\ UNCHANGED <<ds, wlog, rlog>>

\* The environment flips one bit of one padding byte of the closed file.
CorruptPad ==
    /\ ds.mode = "closed"
    /\ env.corrupt = NoCorrupt
    /\ \E k \in 1..Len(wlog) :
         \E j \in 0..(wlog[k].pad - 1), mask \in BitMasks :
             /\ file' = [file EXCEPT
                            !.data = ApplyMask(@, wlog[k].size0 + j, mask)]
             /\ env' = [env EXCEPT !.corrupt =
                           [kind |-> "pad", at |-> wlog[k].size0 + j,
                            len |-> 1]]
    /\ UNCHANGED <<ds, wlog, rlog>>

\* The first bytes of a file found at the path: the header of a log, the
\* header with one bit of one byte flipped, or a prefix of the header
HeaderInputs ==
    {HeaderBytes}
      \cup { ApplyMask(HeaderBytes, j, m) : j \in 0..6, m \in BitMasks }
      \cup { SubSeq(HeaderBytes, 1, n) : n \in 0..6 }

\* what follows them: nothing, or one FULL chunk
BodyInputs ==
    { <<>>,
      _write_record(WState(<<>>, LEVELDBLOG_HEADER_LEN, <<>>, NoExc),
                    Pat(3), LEVELDBLOG_FULL).out }

\* the environment leaves a file at the path, not written by a DataStore
PutFile ==
    /\ ds.mode = "new"
    /\ ~file.exists
    /\ \E h \in HeaderInputs, body \in BodyInputs :
         file' = [exists |-> TRUE, data |-> h \o body]
    /\ env' = [env EXCEPT !.sessions = Append(@, "foreign")]
    /\ UNCHANGED <<ds, wlog, rlog>>


(***************************************************************************)
(* The record pipeline: producer -> record_q -> router (HandleManager) ->  *)
(* sender_q -> sender (SendManager), writer_q, result_q.                   *)
(*                                                                         *)
(*   settings   the run's settings (_offline, resume)                      *)
(*   backend    what the backend knows: the prior run's resume status      *)
(*   record_q   records-in queue, consumed by the router                   *)
(*   sender_q   router -> sender queue, consumed by the sender             *)
(*   writer_q   router -> writer queue (every record put, in order)        *)
(*   result_q   results-out queue (every result put, in order)             *)
(*   hm         HandleManager fields                                       *)
(*   sm         SendManager fields                                         *)
(*   plog       history: producer traffic, every put on sender_q, every    *)
(*              defer state the sender handled, the sender's side effects  *)
(***************************************************************************)
VARIABLES settings, backend, record_q, sender_q, writer_q, result_q, hm, sm, plog

pipeVars == <<settings, backend, record_q, sender_q, writer_q, result_q, hm, sm, plog>>

\* The processes around the pipeline: the sweep agent with the processes of
\* its runs (wandb_agent.py), and the Backend object of the user process
\* with the threads that call its cleanup (backend.py).
VARIABLES agent, backend_obj

hostVars == <<agent, backend_obj>>

vars == <<file, ds, wlog, rlog, env,
          settings, backend, record_q, sender_q, writer_q, result_q, hm, sm, plog,
          agent, backend_obj>>

\* bound of the pipeline: records put on record_q from outside of it (sent
\* by the producer, or delivered again by the environment), not counting
\* the run record of wandb.init
MaxRecords == 2

\* wandb_internal.proto DeferRequest.DeferState
BEGIN == 0
FLUSH_STATS == 1
FLUSH_TB == 2
FLUSH_SUM == 3
FLUSH_DIR == 4
FLUSH_FP == 5
FLUSH_FS == 6
FLUSH_FINAL == 7
END == 8

DeferStates == BEGIN..END

NoDict == [k \in {} |-> 0]

\* A Record: `kind` is the record_type (or the request_type of a request),
\* control.req_resp, control.local, uuid (0: unset); origin tells the
\* producer's records from those published by the sender
\* (interface.publish_*) and those made by the router (_save_summary).
Record(kind, origin, uuid, req_resp, local, state, exit_code, items) ==
    [kind |-> kind, origin |-> origin, uuid |-> uuid,
     req_resp |-> req_resp, local |-> local, state |-> state,
     exit_code |-> exit_code, items |-> items]

NoRunInfo == [starting_step |-> 0, resumed |-> FALSE, config |-> NoDict]

\* wandb_internal_pb2.Result: uuid; exit_result / poll_exit_response
\* (done, exit_result) / run_result (run, error)
Result(kind, uuid, done, exit_result, error, run) ==
    [kind |-> kind, uuid |-> uuid, done |-> done, exit_result |-> exit_result,
     error |-> error, run |-> run]

\* dict.update
DictUpdate(d, e) ==
    [k \in DOMAIN d \cup DOMAIN e |-> IF k \in DOMAIN e THEN e[k] ELSE d[k]]


(***************************************************************************)
(* handler.py: HandleManager                                               *)
(***************************************************************************)
\* The router's two downstream queues, with the history of every put on
\* the sender queue.
Queues(sq, wq, sent) == [sq |-> sq, wq |-> wq, sent |-> sent]

\* _dispatch_record without the test of record.control.local
_dispatch_record_ignores_local(offline, q, record, always_send) ==
    LET toSender == ~offline \/ always_send
    IN Queues(IF toSender THEN Append(q.sq, record) ELSE q.sq,
              Append(q.wq, record),
              IF toSender THEN Append(q.sent, record) ELSE q.sent)

\* _dispatch_record that puts the record at the head of the queues
_dispatch_record_at_head(offline, q, record, always_send) ==
    LET toSender == ~offline \/ always_send
        toWriter == ~record.local
    IN Queues(IF toSender THEN <<record>> \o q.sq ELSE q.sq,
              IF toWriter THEN <<record>> \o q.wq ELSE q.wq,
              IF toSender THEN <<record>> \o q.sent ELSE q.sent)

\* HandleManager._dispatch_record
_dispatch_record(offline, q, record, always_send) ==
    LET toSender == ~offline \/ always_send
        toWriter == ~record.local
    IN Queues(IF toSender THEN Append(q.sq, record) ELSE q.sq,
              IF toWriter THEN Append(q.wq, record) ELSE q.wq,
              IF toSender THEN Append(q.sent, record) ELSE q.sent)

\* _save_summary that dispatches the record whether flush is set or not
_save_summary_always_dispatch(offline, q, summary_dict, flush) ==
    LET record == Record("summary", "router", 0, FALSE, FALSE, 0, 0, summary_dict)
    IN _dispatch_record(offline, q, record, FALSE)

\* HandleManager._save_summary
_save_summary(offline, q, summary_dict, flush) ==
    LET record == Record("summary", "router", 0, FALSE, FALSE, 0, 0, summary_dict)
    IN IF flush THEN _dispatch_record(offline, q, record, FALSE)
       ELSE IF ~offline
       THEN Queues(Append(q.sq, record), q.wq, Append(q.sent, record))
       ELSE q

\* isinstance(v, numbers.Real) of a decoded JSON value: true of a number
\* and, bool being a subclass of int, of true and false
IsReal(v) == IF "num" \in DOMAIN v THEN v.num ELSE "bool" \in DOMAIN v

\* HandleManager._save_history: the values that are numbers.Real go to the
\* key's accumulator
_save_history(sampled, items) ==
    [k \in DOMAIN sampled \cup {k2 \in DOMAIN items : IsReal(items[k2])} |->
        IF k \in DOMAIN items /\ IsReal(items[k])
        THEN Append(IF k \in DOMAIN sampled THEN sampled[k] ELSE <<>>,
                    items[k])
        ELSE sampled[k]]

\* A router step yields the new HandleManager fields and queues, and the
\* exception that left the handler (NoExc: it returned).
HOut(h, q) == [h |-> h, q |-> q, exc |-> NoExc, res |-> <<>>]

HRaise(h, q, exc) == [h |-> h, q |-> q, exc |-> exc, res |-> <<>>]

\* HandleManager.handle_request_run_start: starts the system stats sampler
\* unless disabled, makes the tensorboard watcher and answers the request
handle_request_run_start(offline, h, q, record) ==
    LET h1 == IF ~h.disable_stats THEN [h EXCEPT !.system_stats = "running"]
              ELSE h
        h2 == [h1 EXCEPT !.tb_watcher = "active"]
    IN [h |-> h2, q |-> q, exc |-> NoExc,
        res |-> <<Result("run_start", record.uuid, FALSE, FALSE, NoExc,
                         NoRunInfo)>>]

\* json.loads(item.value_json) of a JSON object: a dict
Dict(d) == [dict |-> TRUE, d |-> d]

IsDictValue(v) == "dict" \in DOMAIN v

\* wandb_internal_pb2.SummaryItem: key, nested_key, value_json
Item(key, nested_key, value) ==
    [key |-> key, nested_key |-> nested_key, value |-> value]

\* the result of one item: the exception raised and the dict left
DRes(exc, d) == [exc |-> exc, d |-> d]

\* "for prop in key[:-1]: target = target[prop]", then
\* "target[key[-1]] = json.loads(item.value_json)"
RECURSIVE SetLeaf(_, _, _)
SetLeaf(target, key, value) ==
    IF Len(key) = 1
    THEN DRes(NoExc, DictUpdate(target, [k \in {key[1]} |-> value]))
    ELSE IF key[1] \notin DOMAIN target THEN DRes("KeyError", target)
    ELSE IF ~IsDictValue(target[key[1]]) THEN DRes("TypeError", target)
    ELSE LET r == SetLeaf(target[key[1]].d, Tail(key), value)
         IN IF r.exc # NoExc THEN DRes(r.exc, target)
            ELSE DRes(NoExc,
                      DictUpdate(target, [k \in {key[1]} |-> Dict(r.d)]))

\* DelLeaf that deletes the first key of the path with all below it
DelLeaf_removes_parent(target, key) ==
    IF key[1] \notin DOMAIN target THEN DRes("KeyError", target)
    ELSE DRes(NoExc, [k \in DOMAIN target \ {key[1]} |-> target[k]])

\* "for prop in key[:-1]: target = target[prop]", then "del target[key[-1]]"
RECURSIVE DelLeaf(_, _)
DelLeaf(target, key) ==
    IF key[1] \notin DOMAIN target THEN DRes("KeyError", target)
    ELSE IF Len(key) = 1
    THEN DRes(NoExc, [k \in DOMAIN target \ {key[1]} |-> target[k]])
    ELSE IF ~IsDictValue(target[key[1]]) THEN DRes("TypeError", target)
    ELSE LET r == DelLeaf(target[key[1]].d, Tail(key))
         IN IF r.exc # NoExc THEN DRes(r.exc, target)
            ELSE DRes(NoExc,
                      DictUpdate(target, [k \in {key[1]} |-> Dict(r.d)]))

\* the loop without "assert item.key == ''"
RECURSIVE ApplyItems_no_assert(_, _, _)
ApplyItems_no_assert(summary, items, remove) ==
    IF items = <<>> THEN DRes(NoExc, summary)
    ELSE LET item == items[1]
             nested == Len(item.nested_key) > 0
             key == IF nested THEN item.nested_key ELSE <<item.key>>
             r == IF remove THEN DelLeaf(summary, key)
                  ELSE SetLeaf(summary, key, item.value)
         IN IF r.exc # NoExc THEN r
            ELSE ApplyItems_no_assert(r.d, Tail(items), remove)

\* one loop of handle_summary: over summary.update, or over summary.remove
RECURSIVE ApplyItems(_, _, _)
ApplyItems(summary, items, remove) ==
    IF items = <<>> THEN DRes(NoExc, summary)
    ELSE LET item == items[1]
             nested == Len(item.nested_key) > 0
         IN IF nested /\ item.key # ""
            THEN DRes("AssertionError: item.key", summary)
            ELSE LET key == IF nested THEN item.nested_key ELSE <<item.key>>
                     r == IF remove THEN DelLeaf(summary, key)
                          ELSE SetLeaf(summary, key, item.value)
                 IN IF r.exc # NoExc THEN r
                    ELSE ApplyItems(r.d, Tail(items), remove)

\* handle_request_defer that forwards the request as other records are
\* forwarded, without always_send
handle_request_defer_by_default(offline, h, q, record) ==
    LET state == record.state
        h1 == IF state = FLUSH_STATS
              THEN IF h.system_stats = "running"
                   THEN [h EXCEPT !.system_stats = "shutdown"] ELSE h
              ELSE IF state = FLUSH_TB
              THEN IF h.tb_watcher = "active"
                   THEN [h EXCEPT !.tb_watcher = "none"] ELSE h
              ELSE h
        q1 == IF state = FLUSH_SUM
              THEN _save_summary(offline, q, h.consolidated_summary, TRUE)
              ELSE q
    IN HOut(h1, _dispatch_record(offline, q1, record, FALSE))

\* handle_request_defer that forwards the request before it flushes the
\* summary
handle_request_defer_sum_late(offline, h, q, record) ==
    LET state == record.state
        h1 == IF state = FLUSH_STATS
              THEN IF h.system_stats = "running"
                   THEN [h EXCEPT !.system_stats = "shutdown"] ELSE h
              ELSE IF state = FLUSH_TB
              THEN IF h.tb_watcher = "active"
                   THEN [h EXCEPT !.tb_watcher = "none"] ELSE h
              ELSE h
        q1 == _dispatch_record(offline, q, record, TRUE)
    IN HOut(h1, IF state = FLUSH_SUM
                THEN _save_summary(offline, q1, h.consolidated_summary, TRUE)
                ELSE q1)

\* HandleManager.handle_request_defer
handle_request_defer(offline, h, q, record) ==
    LET state == record.state
        h1 == IF state = FLUSH_STATS
              THEN IF h.system_stats = "running"
                   THEN [h EXCEPT !.system_stats = "shutdown"] ELSE h
              ELSE IF state = FLUSH_TB
              THEN IF h.tb_watcher = "active"
                   THEN [h EXCEPT !.tb_watcher = "none"] ELSE h
              ELSE h
        q1 == IF state = FLUSH_SUM
              THEN _save_summary(offline, q, h.consolidated_summary, TRUE)
              ELSE q
    IN HOut(h1, _dispatch_record(offline, q1, record, TRUE))

\* HandleManager.handle_history
handle_history(offline, h, q, record) ==
    LET q1 == _dispatch_record(offline, q, record, FALSE)
        sampled == _save_history(h.sampled_history, record.items)
        consolidated == DictUpdate(h.consolidated_summary, record.items)
        h1 == [h EXCEPT !.sampled_history = sampled,
                        !.consolidated_summary = consolidated]
    IN HOut(h1, _save_summary(offline, q1, consolidated, FALSE))

\* handle_summary that works on a copy of the summary and keeps the copy
\* only when every item was applied
handle_summary_on_copy(offline, h, q, record) ==
    LET u == ApplyItems(h.consolidated_summary, record.items.update, FALSE)
        r == IF u.exc # NoExc THEN u
             ELSE ApplyItems(u.d, record.items.remove, TRUE)
        h1 == [h EXCEPT !.consolidated_summary = r.d]
    IN IF r.exc # NoExc THEN HRaise(h, q, r.exc)
       ELSE HOut(h1, _save_summary(offline, q, r.d, FALSE))

\* HandleManager.handle_summary
handle_summary(offline, h, q, record) ==
    LET u == ApplyItems(h.consolidated_summary, record.items.update, FALSE)
        r == IF u.exc # NoExc THEN u
             ELSE ApplyItems(u.d, record.items.remove, TRUE)
        h1 == [h EXCEPT !.consolidated_summary = r.d]
    IN IF r.exc # NoExc THEN HRaise(h1, q, r.exc)
       ELSE HOut(h1, _save_summary(offline, q, r.d, FALSE))

\* handle_run, handle_stats, handle_config, handle_output, handle_files,
\* handle_artifact, handle_alert, handle_header, handle_footer
handle_default(offline, h, q, record) ==
    HOut(h, _dispatch_record(offline, q, record, FALSE))

\* handle_exit, handle_final, handle_request_poll_exit without always_send
handle_always_by_default(offline, h, q, record) ==
    HOut(h, _dispatch_record(offline, q, record, FALSE))

\* handle_exit, handle_final, handle_request_poll_exit
handle_always(offline, h, q, record) ==
    HOut(h, _dispatch_record(offline, q, record, TRUE))

DefaultKinds ==
    {"run", "stats", "config", "output", "files", "artifact", "alert",
     "header", "footer", "tbrecord"}
AlwaysKinds == {"exit", "final", "poll_exit"}

\* HandleManager.handle / handle_request: dispatch on the record's kind
handle(offline, h, q, record) ==
    IF record.kind = "defer" THEN handle_request_defer(offline, h, q, record)
    ELSE IF record.kind = "run_start"
    THEN handle_request_run_start(offline, h, q, record)
    ELSE IF record.kind = "history" THEN handle_history(offline, h, q, record)
    ELSE IF record.kind = "summary" THEN handle_summary(offline, h, q, record)
    ELSE IF record.kind \in AlwaysKinds THEN handle_always(offline, h, q, record)
    ELSE handle_default(offline, h, q, record)


(***************************************************************************)
(* sender.py: SendManager                                                  *)
(***************************************************************************)
\* A side effect of the sender on a collaborator (file stream, upload
\* pipeline, directory watcher, backend API).
Ev(e, s) == [e |-> e, s |-> s]

\* an exception left SendManager.send: the sender thread ends
Raised == "raise"

\* A sender step yields the new SendManager fields, the records it
\* publishes through the interface, the results it puts on result_q and
\* its side effects, in order.
SOut(s, pub, res, ev) == [s |-> s, pub |-> pub, res |-> res, ev |-> ev]

\* a record to publish: kind, defer state, control.local
Pub(kind, state, local) == [kind |-> kind, state |-> state, local |-> local]

\* FilePusher.get_status()[0]: the upload thread is still alive
PusherAlive(pusher) == pusher \in {"running", "finishing"}

\* FilePusher.finish(): no more files; the thread ends once it has drained
PusherFinish(pusher) == IF pusher = "running" THEN "finishing" ELSE pusher

\* the retry budget of one file upload
MaxUploadAttempts == 2

\* An UploadTask of the upload pipeline: "queued" until its upload has
\* succeeded ("done") or has failed MaxUploadAttempts times ("failed")
UploadTask(status, attempts) == [status |-> status, attempts |-> attempts]

\* an upload pipeline that retries a failing file without limit
UploadStep_no_limit(files, i, ok) ==
    [files EXCEPT ![i] =
        IF ok THEN UploadTask("done", @.attempts)
        ELSE UploadTask("queued", Min(@.attempts + 1, MaxUploadAttempts))]

\* one upload attempt of file i, which succeeds (ok) or fails
UploadStep(files, i, ok) ==
    [files EXCEPT ![i] =
        IF ok THEN UploadTask("done", @.attempts)
        ELSE IF @.attempts + 1 >= MaxUploadAttempts
        THEN UploadTask("failed", @.attempts + 1)
        ELSE UploadTask("queued", @.attempts + 1)]

\* every file of the upload pipeline has completed or permanently failed
Settled(files) ==
    \A i \in 1..Len(files) : files[i].status \in {"done", "failed"}

\* send_exit that keeps the uuid of every exit record for the reply
send_exit_always_sync(s, record) ==
    LET s1 == [s EXCEPT !.exit_code = record.exit_code]
        s2 == [s1 EXCEPT !.exit_sync_uuid = record.uuid]
    IN SOut(s2, <<Pub("defer", BEGIN, TRUE)>>, <<>>, <<>>)

\* SendManager.send_exit
send_exit(s, record) ==
    LET s1 == [s EXCEPT !.exit_code = record.exit_code]
        s2 == IF record.req_resp THEN [s1 EXCEPT !.exit_sync_uuid = record.uuid]
              ELSE s1
    IN SOut(s2, <<Pub("defer", BEGIN, TRUE)>>, <<>>, <<>>)

\* send_request_defer that takes FLUSH_FINAL for the last state
send_request_defer_early_done(s, record) ==
    LET state == record.state
        done == state >= FLUSH_FINAL
        s1 == IF state = FLUSH_DIR /\ s.dir_watcher # "none"
              THEN [s EXCEPT !.dir_watcher = "none"]
              ELSE IF state = FLUSH_FP /\ s.pusher # "none"
              THEN [s EXCEPT !.pusher = PusherFinish(@)]
              ELSE IF state = FLUSH_FS /\ s.fs # "none"
              THEN [s EXCEPT !.fs = "none"]
              ELSE s
    IN IF ~done
       THEN SOut(s1, <<Pub("defer", state + 1, TRUE)>>, <<>>, <<>>)
       ELSE LET sync == s.exit_sync_uuid # 0
                joined == sync /\ s.pusher # "none"
                s2 == [s1 EXCEPT !.pusher = IF joined THEN "none" ELSE @,
                                 !.exit_result = TRUE]
            IN SOut(s2, <<>>,
                    IF sync
                    THEN <<Result("exit", s.exit_sync_uuid, FALSE, TRUE, NoExc,
                                  NoRunInfo)>>
                    ELSE <<>>,
                    <<>>)

\* send_request_defer that finishes the file stream at FLUSH_DIR and the
\* directory watcher at FLUSH_FS
send_request_defer_fs_first(s, record) ==
    LET state == record.state
        done == state = END
        s1 == IF state = FLUSH_FS /\ s.dir_watcher # "none"
              THEN [s EXCEPT !.dir_watcher = "none"]
              ELSE IF state = FLUSH_FP /\ s.pusher # "none"
              THEN [s EXCEPT !.pusher = PusherFinish(@)]
              ELSE IF state = FLUSH_DIR /\ s.fs # "none"
              THEN [s EXCEPT !.fs = "none"]
              ELSE s
        ev1 == IF state = FLUSH_FS /\ s.dir_watcher # "none"
               THEN <<Ev("dir_watcher.finish", 0)>>
               ELSE IF state = FLUSH_FP /\ s.pusher # "none"
               THEN <<Ev("pusher.finish", 0)>>
               ELSE IF state = FLUSH_DIR /\ s.fs # "none"
               THEN <<Ev("fs.finish", s.exit_code)>>
               ELSE <<>>
        pub1 == IF state = FLUSH_FINAL
                THEN <<Pub("final", 0, FALSE), Pub("footer", 0, FALSE)>>
                ELSE <<>>
    IN IF ~done
       THEN SOut(s1, Append(pub1, Pub("defer", state + 1, TRUE)), <<>>, ev1)
       ELSE LET sync == s.exit_sync_uuid # 0
                joined == sync /\ s.pusher # "none"
                s2 == [s1 EXCEPT !.pusher = IF joined THEN "none" ELSE @,
                                 !.exit_result = TRUE]
            IN SOut(s2, <<>>,
                    IF sync
                    THEN <<Result("exit", s.exit_sync_uuid, FALSE, TRUE, NoExc,
                                  NoRunInfo)>>
                    ELSE <<>>,
                    IF joined THEN <<Ev("pusher.join", 0)>> ELSE <<>>)

\* SendManager.send_request_defer
send_request_defer(s, record) ==
    LET state == record.state
        done == state = END
        s1 == IF state = FLUSH_DIR /\ s.dir_watcher # "none"
              THEN [s EXCEPT !.dir_watcher = "none"]
              ELSE IF state = FLUSH_FP /\ s.pusher # "none"
              THEN [s EXCEPT !.pusher = PusherFinish(@)]
              ELSE IF state = FLUSH_FS /\ s.fs # "none"
              THEN [s EXCEPT !.fs = "none"]
              ELSE s
        ev1 == IF state = FLUSH_DIR /\ s.dir_watcher # "none"
               THEN <<Ev("dir_watcher.finish", 0)>>
               ELSE IF state = FLUSH_FP /\ s.pusher # "none"
               THEN <<Ev("pusher.finish", 0)>>
               ELSE IF state = FLUSH_FS /\ s.fs # "none"
               THEN <<Ev("fs.finish", s.exit_code)>>
               ELSE <<>>
        pub1 == IF state = FLUSH_FINAL
                THEN <<Pub("final", 0, FALSE), Pub("footer", 0, FALSE)>>
                ELSE <<>>
    IN IF ~done
       THEN SOut(s1, Append(pub1, Pub("defer", state + 1, TRUE)), <<>>, ev1)
       ELSE LET sync == s.exit_sync_uuid # 0
                joined == sync /\ s.pusher # "none"
                s2 == [s1 EXCEPT !.pusher = IF joined THEN "none" ELSE @,
                                 !.exit_result = TRUE]
            IN SOut(s2, <<>>,
                    IF sync
                    THEN <<Result("exit", s.exit_sync_uuid, FALSE, TRUE, NoExc,
                                  NoRunInfo)>>
                    ELSE <<>>,
                    IF joined THEN <<Ev("pusher.join", 0)>> ELSE <<>>)

\* send_request_defer that does not wait for the upload thread
SendBlocked_no_join(s, record) == FALSE

\* send_request_defer blocks in pusher.join() until the upload thread ends
SendBlocked(s, record) ==
    /\ record.kind = "defer"
    /\ record.state = END
    /\ s.exit_sync_uuid # 0
    /\ PusherAlive(s.pusher)

\* send_request_poll_exit that does not ask the upload pipeline
send_request_poll_exit_no_alive(s, record) ==
    IF ~record.req_resp THEN SOut(s, <<>>, <<>>, <<>>)
    ELSE LET done == s.exit_result
         IN SOut(s, <<>>,
                 <<Result("poll_exit", record.uuid, done, done, NoExc, NoRunInfo)>>,
                 <<>>)

\* SendManager.send_request_poll_exit
send_request_poll_exit(s, record) ==
    IF ~record.req_resp THEN SOut(s, <<>>, <<>>, <<>>)
    ELSE LET alive == IF s.pusher # "none" THEN PusherAlive(s.pusher) ELSE FALSE
             done == s.exit_result /\ ~alive
         IN SOut(s, <<>>,
                 <<Result("poll_exit", record.uuid, done, done, NoExc, NoRunInfo)>>,
                 IF done /\ s.pusher # "none" THEN <<Ev("pusher.join", 0)>>
                 ELSE <<>>)

\* send_history that pushes without looking at the file stream
send_history_unguarded(s, record) ==
    SOut(s, <<>>, <<>>, <<Ev("fs.push:history", 0)>>)

\* SendManager._save_history / send_history
send_history(s, record) ==
    SOut(s, <<>>, <<>>,
         IF s.fs # "none" THEN <<Ev("fs.push:history", 0)>> ELSE <<>>)

\* SendManager.send_summary (with _save_file)
send_summary(s, record) ==
    SOut(s, <<>>, <<>>,
         (IF s.fs # "none" THEN <<Ev("fs.push:summary", 0)>> ELSE <<>>)
           \o <<Ev("write:wandb-summary.json", 0)>>
           \o (IF s.dir_watcher # "none"
               THEN <<Ev("dir_watcher.update_policy:wandb-summary.json", 0)>>
               ELSE <<>>))

\* SendManager.send_stats: the record's items hold its stats_type
send_stats(s, record) ==
    IF record.items.stats_type # "SYSTEM" THEN SOut(s, <<>>, <<>>, <<>>)
    ELSE IF s.fs = "none" THEN SOut(s, <<>>, <<>>, <<>>)
    ELSE SOut(s, <<>>, <<>>, <<Ev("fs.push:events", 0)>>)

\* SendManager.finish
finish(s) ==
    SOut([s EXCEPT !.dir_watcher = "none", !.pusher = "none", !.fs = "none"],
         <<>>, <<>>,
         <<Ev("finish", 0)>>
           \o (IF s.dir_watcher # "none"
               THEN <<Ev("dir_watcher.finish", 0)>> ELSE <<>>)
           \o (IF s.pusher # "none"
               THEN <<Ev("pusher.finish", 0), Ev("pusher.join", 0)>>
               ELSE <<>>)
           \o (IF s.fs # "none"
               THEN <<Ev("fs.finish", s.exit_code)>> ELSE <<>>))

\* send_final, send_footer, send_header, send_tbrecord
send_pass(s, record) == SOut(s, <<>>, <<>>, <<>>)

\* a text is a sequence of characters and tokens; NL is "\n", TS the
\* timestamp "datetime.utcfromtimestamp(cur_time).isoformat() + ' '"
NL == "\n"
TS == "<timestamp> "

\* an OutputRecord: output_type and line
Output(output_type, line) == [output_type |-> output_type, line |-> line]

\* line.endswith("\n")
EndsWithNewline(line) == Len(line) > 0 /\ line[Len(line)] = NL

\* self._fs.push(filenames.OUTPUT_FNAME, line)
PushOutputEv(text) == [e |-> "fs.push:output", s |-> 0, text |-> text]

\* send_output that keeps one buffer for both streams
send_output_one_buffer(s, record) ==
    IF s.fs = "none" THEN SOut(s, <<>>, <<>>, <<>>)
    ELSE LET out == record.items
             stderr == out.output_type = "STDERR"
             stream == "stdout"
             prepend == IF stderr THEN <<"ERROR ">> ELSE <<>>
             prev_str == IF stream \in DOMAIN s.partial_output
                         THEN s.partial_output[stream] ELSE <<>>
         IN IF ~EndsWithNewline(out.line)
            THEN SOut([s EXCEPT !.partial_output =
                          DictUpdate(@, [k \in {stream} |-> prev_str \o out.line])],
                      <<>>, <<>>, <<>>)
            ELSE SOut([s EXCEPT !.partial_output =
                          DictUpdate(@, [k \in {stream} |-> <<>>])],
                      <<>>, <<>>,
                      <<PushOutputEv(prepend \o <<TS>> \o prev_str \o out.line)>>)

\* SendManager.send_output
send_output(s, record) ==
    IF s.fs = "none" THEN SOut(s, <<>>, <<>>, <<>>)
    ELSE LET out == record.items
             stderr == out.output_type = "STDERR"
             stream == IF stderr THEN "stderr" ELSE "stdout"
             prepend == IF stderr THEN <<"ERROR ">> ELSE <<>>
             prev_str == IF stream \in DOMAIN s.partial_output
                         THEN s.partial_output[stream] ELSE <<>>
         IN IF ~EndsWithNewline(out.line)
            THEN SOut([s EXCEPT !.partial_output =
                          DictUpdate(@, [k \in {stream} |-> prev_str \o out.line])],
                      <<>>, <<>>, <<>>)
            ELSE SOut([s EXCEPT !.partial_output =
                          DictUpdate(@, [k \in {stream} |-> <<>>])],
                      <<>>, <<>>,
                      <<PushOutputEv(prepend \o <<TS>> \o prev_str \o out.line)>>)

\* wandb_internal_pb2.Result of a status request: uuid and
\* response.status_response.run_should_stop
StatusResult(uuid, run_should_stop) ==
    [kind |-> "status", uuid |-> uuid, done |-> FALSE, exit_result |-> FALSE,
     error |-> NoExc, run |-> NoRunInfo, run_should_stop |-> run_should_stop]

\* api.check_stop_requested: the backend answers True or False, or the
\* call raises
StopChecks == {"true", "false", "raise"}

\* send_request_status without the try / except around the stop-check
send_request_status_propagates(s, record, check_stop) ==
    IF ~record.req_resp THEN SOut(s, <<>>, <<>>, <<Ev(Raised, 0)>>)
    ELSE LET checked == /\ record.items.check_stop_req
                        /\ s.entity # "" /\ s.project # "" /\ s.run = "set"
         IN IF checked /\ check_stop = "raise"
            THEN SOut(s, <<>>, <<>>,
                      <<Ev("api.check_stop_requested", 0), Ev(Raised, 0)>>)
            ELSE SOut(s, <<>>,
                      <<StatusResult(record.uuid,
                                     checked /\ check_stop = "true")>>,
                      IF checked THEN <<Ev("api.check_stop_requested", 0)>>
                      ELSE <<>>)

\* SendManager.send_request_status: check_stop is what the backend does
\* when api.check_stop_requested is called
send_request_status(s, record, check_stop) ==
    IF ~record.req_resp THEN SOut(s, <<>>, <<>>, <<Ev(Raised, 0)>>)
    ELSE LET checked == /\ record.items.check_stop_req
                        /\ s.entity # "" /\ s.project # "" /\ s.run = "set"
             run_should_stop == checked /\ check_stop = "true"
         IN SOut(s, <<>>, <<StatusResult(record.uuid, run_should_stop)>>,
                 IF checked THEN <<Ev("api.check_stop_requested", 0)>>
                 ELSE <<>>)


Max(a, b) == IF a > b THEN a ELSE b

\* dict.get(key, default) on a row of the history / events tail
Get(row, key, default) == IF key \in DOMAIN row THEN row[key].v ELSE default

\* a JSON text: json.loads returns d, or raises ValueError
Json(d) == [ok |-> TRUE, d |-> d]
BadJson == [ok |-> FALSE, d |-> NoDict]

\* the backend has no run of that name: run_resume_status returns None
NoStatus ==
    [exists |-> FALSE, historyTail |-> <<>>, eventsTail |-> <<>>,
     config |-> NoDict, summaryMetrics |-> NoDict, historyLineCount |-> 0,
     eventsLineCount |-> 0, logLineCount |-> 0]

\* SendManager.__init__: self._resume_state ("config"/"summary" None)
InitResumeState ==
    [step |-> 0, history |-> 0, events |-> 0, output |-> 0, runtime |-> 0,
     summary |-> NoDict, has_summary |-> FALSE,
     config |-> NoDict, has_config |-> FALSE, resumed |-> FALSE]

\* what _maybe_setup_resume leaves: the error it returns (NoExc for None),
\* the exception that leaves it, the resume state, and whether it called
\* api.run_resume_status
Setup(error, exc, rs, queried) ==
    [error |-> error, exc |-> exc, rs |-> rs, queried |-> queried]

\* _maybe_setup_resume that takes the step of the last history row as the
\* starting step
_maybe_setup_resume_same_step(resume, resume_status, rs) ==
    IF resume = "none" THEN Setup(NoExc, NoExc, rs, FALSE)
    ELSE IF ~resume_status.exists
    THEN Setup(IF resume = "must" THEN "resume='must' but run doesn't exist"
               ELSE NoExc, NoExc, rs, TRUE)
    ELSE IF resume = "never"
    THEN Setup("resume='never' but run exists", NoExc, rs, TRUE)
    ELSE LET ht == resume_status.historyTail
             et == resume_status.eventsTail
             hbad == Len(ht) > 0 /\ ~ht[Len(ht)].ok
             ebad == ~hbad /\ Len(et) > 0 /\ ~et[Len(et)].ok
             raised == hbad \/ ebad
             history == IF Len(ht) > 0 /\ ~hbad THEN ht[Len(ht)].d ELSE NoDict
             history_rt == IF Len(ht) > 0 /\ ~hbad
                           THEN Get(history, "_runtime", 0) ELSE 0
             events_rt == IF Len(et) > 0 /\ ~raised
                          THEN Get(et[Len(et)].d, "_runtime", 0) ELSE 0
         IN IF raised /\ resume = "must"
            THEN Setup("resume='must' but could not resume", NoExc, rs, TRUE)
            ELSE IF hbad
            THEN Setup(NoExc, "AttributeError", rs, TRUE)
            ELSE Setup(NoExc, NoExc,
                       [step |-> IF DOMAIN history # {}
                                 THEN Get(history, "_step", 0) ELSE 0,
                        history |-> resume_status.historyLineCount,
                        events |-> resume_status.eventsLineCount,
                        output |-> resume_status.logLineCount,
                        runtime |-> Max(events_rt, history_rt),
                        summary |-> IF raised THEN NoDict
                                    ELSE resume_status.summaryMetrics,
                        has_summary |-> TRUE,
                        config |-> IF raised THEN NoDict
                                   ELSE resume_status.config,
                        has_config |-> TRUE,
                        resumed |-> TRUE],
                       TRUE)

\* SendManager._maybe_setup_resume.  The try block parses the last row of
\* historyTail, then the last row of eventsTail, then config and
\* summaryMetrics; a ValueError ends it, and unless resume is "must" the
\* method goes on with what was parsed.  After a ValueError in the history
\* row `history` is still the list of rows, and history.get raises
\* AttributeError.
_maybe_setup_resume(resume, resume_status, rs) ==
    IF resume = "none" THEN Setup(NoExc, NoExc, rs, FALSE)
    ELSE IF ~resume_status.exists
    THEN Setup(IF resume = "must" THEN "resume='must' but run doesn't exist"
               ELSE NoExc, NoExc, rs, TRUE)
    ELSE IF resume = "never"
    THEN Setup("resume='never' but run exists", NoExc, rs, TRUE)
    ELSE LET ht == resume_status.historyTail
             et == resume_status.eventsTail
             hbad == Len(ht) > 0 /\ ~ht[Len(ht)].ok
             ebad == ~hbad /\ Len(et) > 0 /\ ~et[Len(et)].ok
             raised == hbad \/ ebad
             history == IF Len(ht) > 0 /\ ~hbad THEN ht[Len(ht)].d ELSE NoDict
             history_rt == IF Len(ht) > 0 /\ ~hbad
                           THEN Get(history, "_runtime", 0) ELSE 0
             events_rt == IF Len(et) > 0 /\ ~raised
                          THEN Get(et[Len(et)].d, "_runtime", 0) ELSE 0
         IN IF raised /\ resume = "must"
            THEN Setup("resume='must' but could not resume", NoExc, rs, TRUE)
            ELSE IF hbad
            THEN Setup(NoExc, "AttributeError", rs, TRUE)
            ELSE Setup(NoExc, NoExc,
                       [step |-> IF DOMAIN history # {}
                                 THEN Get(history, "_step", -1) + 1 ELSE 0,
                        history |-> resume_status.historyLineCount,
                        events |-> resume_status.eventsLineCount,
                        output |-> resume_status.logLineCount,
                        runtime |-> Max(events_rt, history_rt),
                        summary |-> IF raised THEN NoDict
                                    ELSE resume_status.summaryMetrics,
                        has_summary |-> TRUE,
                        config |-> IF raised THEN NoDict
                                   ELSE resume_status.config,
                        has_config |-> TRUE,
                        resumed |-> TRUE],
                       TRUE)

\* every run record taken for wandb.init
IsWandbInit_always(s) == TRUE

\* "is_wandb_init = self._run is None"
IsWandbInit(s) == s.run = "none"

\* api.upsert_run(config=config_dict) and
\* config_util.save_config_file_from_dict(config_path, config_dict)
UpsertEv(config) == [e |-> "api.upsert_run", s |-> 0, config |-> config]
SaveConfigEv(config) == [e |-> "save_config_file", s |-> 0, config |-> config]

\* the merge of send_run in which the resumed config wins
MergeResumedConfig_resumed_wins(rs, config_dict) ==
    IF rs.has_config THEN DictUpdate(config_dict, rs.config) ELSE config_dict

\* "Save the resumed config" of send_run: config_dict becomes the resumed
\* config updated with the config of the run record
MergeResumedConfig(rs, config_dict) ==
    IF rs.has_config THEN DictUpdate(rs.config, config_dict) ELSE config_dict

\* send_run that reports the error of _maybe_setup_resume and goes on to
\* _init_run and _start_run_threads
send_run_goes_on(resume, resume_status, s, record) ==
    LET is_wandb_init == s.run = "none"
        config_dict0 == record.items
        su == IF is_wandb_init
              THEN _maybe_setup_resume(resume, resume_status, s.resume_state)
              ELSE Setup(NoExc, NoExc, s.resume_state, FALSE)
        q_ev == <<SaveConfigEv(config_dict0)>>
                  \o (IF su.queried THEN <<Ev("api.run_resume_status", 0)>>
                      ELSE <<>>)
    IN IF su.exc # NoExc
       THEN SOut(s, <<>>, <<>>, q_ev \o <<Ev(Raised, 0)>>)
       ELSE LET rs == su.rs
                config_dict == MergeResumedConfig(rs, config_dict0)
                run == [starting_step |-> rs.step, resumed |-> rs.resumed,
                        config |-> config_dict]
                s1 == [s EXCEPT !.resume_state =
                                    IF rs.has_config
                                    THEN [rs EXCEPT !.config = config_dict]
                                    ELSE rs,
                                !.run = "set", !.run_info = run,
                                !.project = "project", !.entity = "entity"]
                s2 == IF is_wandb_init
                      THEN [s1 EXCEPT !.fs = "active", !.pusher = "running",
                                      !.dir_watcher = "active"]
                      ELSE s1
            IN SOut(s2, <<>>,
                    IF record.req_resp
                    THEN <<Result("run", record.uuid, FALSE, FALSE, su.error,
                                  run)>>
                    ELSE <<>>,
                    q_ev \o (IF rs.has_config
                             THEN <<SaveConfigEv(config_dict)>> ELSE <<>>)
                      \o <<UpsertEv(config_dict)>>
                      \o (IF is_wandb_init
                          THEN <<Ev("fs.start", rs.history),
                                 Ev("pusher.start", 0), Ev("dir_watcher.start", 0)>>
                          ELSE <<>>))

\* SendManager.send_run (with _init_run and _start_run_threads)
send_run(resume, resume_status, s, record) ==
    LET is_wandb_init == IsWandbInit(s)
        config_dict0 == record.items
        su == IF is_wandb_init
              THEN _maybe_setup_resume(resume, resume_status, s.resume_state)
              ELSE Setup(NoExc, NoExc, s.resume_state, FALSE)
        q_ev == <<SaveConfigEv(config_dict0)>>
                  \o (IF su.queried THEN <<Ev("api.run_resume_status", 0)>>
                      ELSE <<>>)
    IN IF su.exc # NoExc
       THEN SOut(s, <<>>, <<>>, q_ev \o <<Ev(Raised, 0)>>)
       ELSE IF su.error # NoExc
       THEN SOut(s, <<>>,
                 IF record.req_resp
                 THEN <<Result("run", record.uuid, FALSE, FALSE, su.error,
                               NoRunInfo)>>
                 ELSE <<>>,
                 q_ev)
       ELSE LET rs == su.rs
                config_dict == MergeResumedConfig(rs, config_dict0)
                run == [starting_step |-> rs.step, resumed |-> rs.resumed,
                        config |-> config_dict]
                s1 == [s EXCEPT !.resume_state =
                                    IF rs.has_config
                                    THEN [rs EXCEPT !.config = config_dict]
                                    ELSE rs,
                                !.run = "set", !.run_info = run,
                                !.project = "project", !.entity = "entity"]
                s2 == IF is_wandb_init
                      THEN [s1 EXCEPT !.fs = "active", !.pusher = "running",
                                      !.dir_watcher = "active"]
                      ELSE s1
            IN SOut(s2, <<>>,
                    IF record.req_resp
                    THEN <<Result("run", record.uuid, FALSE, FALSE, NoExc, run)>>
                    ELSE <<>>,
                    q_ev \o (IF rs.has_config
                             THEN <<SaveConfigEv(config_dict)>> ELSE <<>>)
                      \o <<UpsertEv(config_dict)>>
                      \o (IF is_wandb_init
                          THEN <<Ev("fs.start", rs.history),
                                 Ev("pusher.start", 0), Ev("dir_watcher.start", 0)>>
                          ELSE <<>>))

\* SendManager.send / send_request: dispatch on the record's kind
send(resume, resume_status, check_stop, s, record) ==
    IF record.kind = "defer" THEN send_request_defer(s, record)
    ELSE IF record.kind = "status"
    THEN send_request_status(s, record, check_stop)
    ELSE IF record.kind = "poll_exit" THEN send_request_poll_exit(s, record)
    ELSE IF record.kind = "exit" THEN send_exit(s, record)
    ELSE IF record.kind = "run" THEN send_run(resume, resume_status, s, record)
    ELSE IF record.kind = "history" THEN send_history(s, record)
    ELSE IF record.kind = "summary" THEN send_summary(s, record)
    ELSE IF record.kind = "output" /\ record.items # NoDict
    THEN send_output(s, record)
    ELSE IF record.kind = "stats" /\ record.items # NoDict
    THEN send_stats(s, record)
    ELSE send_pass(s, record)

\* SendManager.__init__
InitSender ==
    [fs |-> "none", pusher |-> "none", dir_watcher |-> "none", run |-> "none",
     partial_output |-> NoDict, entity |-> "", project |-> "",
     files |-> <<>>,
     run_info |-> NoRunInfo, resume_state |-> InitResumeState,
     exit_sync_uuid |-> 0, exit_result |-> FALSE, exit_code |-> 0]

\* HandleManager.__init__
InitHandler ==
    [tb_watcher |-> "none", system_stats |-> "none", disable_stats |-> FALSE,
     consolidated_summary |-> NoDict, sampled_history |-> NoDict]

\* interface.publish_defer / publish_final / publish_footer: the records
\* are put on record_q in order
RECURSIVE publish(_, _)
publish(q, pubs) ==
    IF pubs = <<>> THEN q
    ELSE publish(Append(q, Record(pubs[1].kind, "sender", 0, FALSE,
                                  pubs[1].local, pubs[1].state, 0, NoDict)),
                 Tail(pubs))


(***************************************************************************)
(* The pipeline: initial state and steps.                                  *)
(***************************************************************************)
Num(v) == [num |-> TRUE, v |-> v]
Str(v) == [num |-> FALSE, v |-> v]
Bool(b) == [bool |-> TRUE, b |-> b]

\* what the producer may send: kind, control.req_resp, exit code, items
Template(kind, req_resp, exit_code, items) ==
    [kind |-> kind, req_resp |-> req_resp, exit_code |-> exit_code,
     items |-> items]

ProducerInputs ==
    { Template("poll_exit", TRUE, 0, NoDict) }
    \cup { Template("exit", rr, 0, NoDict) : rr \in BOOLEAN }

\* the history rows the producer may log
HistoryInputs ==
    { Template("history", FALSE, 0, d) :
        d \in { [k \in {"_step"} |-> Num(0)],
                [_step |-> Num(1), loss |-> Num(1), note |-> Str("x"),
                 done |-> Bool(TRUE)] } }

PipeInit(offlines) ==
    /\ settings \in [offline : offlines, resume : {"none"}]
    /\ backend = NoStatus
    /\ record_q = <<>>
    /\ sender_q = <<>>
    /\ writer_q = <<>>
    /\ result_q = <<>>
    /\ hm = InitHandler
    /\ sm = InitSender
    /\ plog = [sent |-> 0, inited |-> 0, exits |-> 0, exitlog |-> <<>>,
               redelivered |-> 0, routed |-> <<>>, hstopped |-> FALSE,
               sstopped |-> FALSE, sends |-> <<>>,
               handled |-> <<>>, published |-> <<>>, sentlog |-> <<>>,
               ev |-> <<>>, rsnap |-> <<>>]

\* settings.resume: unset, or one of the resume modes
ResumeModes == {"none", "allow", "auto", "must", "never"}

\* api.run_resume_status of a run the backend has
Status(historyTail, eventsTail, config, historyLineCount) ==
    [exists |-> TRUE, historyTail |-> historyTail, eventsTail |-> eventsTail,
     config |-> config, summaryMetrics |-> NoDict,
     historyLineCount |-> historyLineCount,
     eventsLineCount |-> Len(eventsTail), logLineCount |-> 0]

\* what the backend may answer: no such run; a run of 15 history rows
\* whose last row has _step 15; a run without history rows; a run whose
\* last history row has no _step; a run whose last history row, or last
\* events row, is not valid JSON
BackendInputs ==
    { NoStatus,
      Status(<<Json([_step |-> Num(15), _runtime |-> Num(5)])>>, <<>>,
             [lr |-> Num(1), wd |-> Num(0)], 15),
      Status(<<>>, <<>>, NoDict, 0),
      Status(<<Json([loss |-> Num(1)])>>, <<>>, NoDict, 1),
      Status(<<BadJson>>, <<>>, NoDict, 1),
      Status(<<Json([_step |-> Num(3)])>>, <<BadJson>>, [lr |-> Num(1)], 4) }

\* a sender that may be asked to resume, against any of the backends
ResumeInit ==
    /\ settings \in [offline : {FALSE}, resume : ResumeModes]
    /\ backend \in BackendInputs
    /\ record_q = <<>>
    /\ sender_q = <<>>
    /\ writer_q = <<>>
    /\ result_q = <<>>
    /\ hm = InitHandler
    /\ sm = InitSender
    /\ plog = [sent |-> 0, inited |-> 0, exits |-> 0, exitlog |-> <<>>,
               redelivered |-> 0, routed |-> <<>>, hstopped |-> FALSE,
               sstopped |-> FALSE, sends |-> <<>>,
               handled |-> <<>>, published |-> <<>>, sentlog |-> <<>>,
               ev |-> <<>>, rsnap |-> <<>>]

\* run.config.update of the run records the producer may send
RunConfigs == { NoDict, [lr |-> Num(2), bs |-> Num(8)] }

\* bound of the output records the producer writes
MaxOutputs == 3

\* the chunks of console output the producer may write: text without a
\* newline, text ending in a newline, a lone newline, text with a newline
\* inside, and the empty text
OutputLines ==
    { <<"a">>, <<"b", NL>>, <<NL>>, <<"a", NL, "b">>, <<>> }

\* the producer puts an output record of stdout or stderr on record_q
\* (interface.publish_output)
ProducerOutput ==
    /\ plog.sent < MaxOutputs + plog.inited
    /\ \E output_type \in {"STDOUT", "STDERR"}, line \in OutputLines :
         record_q' = Append(record_q,
                Record("output", "producer", plog.sent + 1, FALSE, FALSE,
                       0, 0, Output(output_type, line)))
    /\ plog' = [plog EXCEPT !.sent = @ + 1]
    /\ UNCHANGED <<settings, backend, sender_q, writer_q, result_q, hm, sm>>

\* the producer asks for the status of the run and waits for the reply
\* (interface.communicate_status), with or without a stop-check
ProducerStatus ==
    /\ plog.sent < MaxRecords + plog.inited
    /\ \E check_stop_req \in BOOLEAN :
         record_q' = Append(record_q,
                Record("status", "producer", plog.sent + 1, TRUE, FALSE,
                       0, 0, [check_stop_req |-> check_stop_req]))
    /\ plog' = [plog EXCEPT !.sent = @ + 1]
    /\ UNCHANGED <<settings, backend, sender_q, writer_q, result_q, hm, sm>>

\* the producer puts a run record on record_q, waiting for the reply
\* (interface.communicate_run) or not (interface.publish_run)
ProducerRun ==
    /\ plog.sent < MaxRecords
    /\ \E req_resp \in BOOLEAN, config \in RunConfigs :
         record_q' = Append(record_q,
                Record("run", "producer", plog.sent + 1, req_resp, FALSE,
                       0, 0, config))
    /\ plog' = [plog EXCEPT !.sent = @ + 1]
    /\ UNCHANGED <<settings, backend, sender_q, writer_q, result_q, hm, sm>>

\* wandb.init: the producer's first record is the run record, and it waits
\* for the reply (interface.communicate_run)
ProducerInit ==
    /\ plog.sent = 0
    /\ record_q' = Append(record_q,
           Record("run", "producer", 1, TRUE, FALSE, 0, 0, NoDict))
    /\ plog' = [plog EXCEPT !.sent = 1, !.inited = 1]
    /\ UNCHANGED <<settings, backend, sender_q, writer_q, result_q, hm, sm>>

\* the producer logs a history row (interface.publish_history)
ProducerLog ==
    /\ plog.sent < MaxRecords + plog.inited
    /\ \E tp \in HistoryInputs :
         record_q' = Append(record_q,
                Record(tp.kind, "producer", plog.sent + 1, tp.req_resp, FALSE,
                       0, tp.exit_code, tp.items))
    /\ plog' = [plog EXCEPT !.sent = @ + 1]
    /\ UNCHANGED <<settings, backend, sender_q, writer_q, result_q, hm, sm>>

\* summary.update / summary.remove items: a flat key, a nested key path
\* below a dict, a nested key path below a key that may be absent, and an
\* item that sets both the flat key and the nested key path
UpdateItems ==
    { Item("a", <<>>, Num(1)), Item("a", <<>>, Num(2)),
      Item("a", <<>>, Dict(NoDict)), Item("", <<"a", "x">>, Num(1)),
      Item("", <<"m", "x">>, Num(1)), Item("a", <<"a", "x">>, Num(1)) }

RemoveItems ==
    { Item("a", <<>>, Num(0)), Item("", <<"a", "x">>, Num(0)),
      Item("", <<"m", "x">>, Num(0)), Item("a", <<"a", "x">>, Num(0)) }

\* the summary records the producer may send: one update, one remove,
\* two updates of which the first writes another key, or two updates of
\* which the first writes a dict and the second a key below it
SummaryInputs ==
    { [update |-> <<u>>, remove |-> <<>>] : u \in UpdateItems }
    \cup { [update |-> <<>>, remove |-> <<r>>] : r \in RemoveItems }
    \cup { [update |-> <<Item("b", <<>>, Num(3)), u>>, remove |-> <<>>] :
             u \in { Item("a", <<>>, Num(1)), Item("a", <<>>, Dict(NoDict)) } }
    \cup { [update |-> <<Item("a", <<>>, Dict([k \in {"y"} |-> Num(2)])),
                         Item("", <<"a", "x">>, Num(1))>>,
            remove |-> <<>>] }

\* the producer puts a summary record on record_q
\* (interface.publish_summary)
ProducerSummary ==
    /\ plog.sent < MaxRecords
    /\ \E items \in SummaryInputs :
         record_q' = Append(record_q,
                Record("summary", "producer", plog.sent + 1, FALSE, FALSE,
                       0, 0, items))
    /\ plog' = [plog EXCEPT !.sent = @ + 1]
    /\ UNCHANGED <<settings, backend, sender_q, writer_q, result_q, hm, sm>>

\* summary records of several items of which one fails: an update that
\* sets both keys or goes through the absent node m, between two updates
\* that succeed and before a remove; a remove of the absent key x between
\* two removes that succeed; a failing first update before one that would
\* succeed; a remove that sets both keys after an update
PartialInputs ==
    { [update |-> <<Item("b", <<>>, Num(3)), u, Item("y", <<>>, Num(2))>>,
       remove |-> <<Item("b", <<>>, Num(0))>>] :
         u \in { Item("a", <<"a", "x">>, Num(1)),
                 Item("", <<"m", "x">>, Num(1)) } }
    \cup { [update |-> <<Item("b", <<>>, Num(3)), Item("y", <<>>, Num(2))>>,
            remove |-> <<Item("y", <<>>, Num(0)), Item("x", <<>>, Num(0)),
                         Item("b", <<>>, Num(0))>>],
           [update |-> <<Item("", <<"m", "x">>, Num(1)),
                         Item("b", <<>>, Num(3))>>,
            remove |-> <<>>],
           [update |-> <<Item("b", <<>>, Num(3))>>,
            remove |-> <<Item("a", <<"a", "x">>, Num(0)),
                         Item("b", <<>>, Num(0))>>] }

\* the producer puts such a summary record on record_q
ProducerPartial ==
    /\ plog.sent < MaxRecords
    /\ \E items \in PartialInputs :
         record_q' = Append(record_q,
                Record("summary", "producer", plog.sent + 1, FALSE, FALSE,
                       0, 0, items))
    /\ plog' = [plog EXCEPT !.sent = @ + 1]
    /\ UNCHANGED <<settings, backend, sender_q, writer_q, result_q, hm, sm>>

\* the records with default routing the producer may send
DataInputs ==
    { Template(kind, FALSE, 0, NoDict) : kind \in DefaultKinds }
    \cup HistoryInputs

\* the producer puts a record with default routing on record_q, marked
\* local or not (control.local)
ProducerData ==
    /\ plog.sent < MaxRecords
    /\ \E tp \in DataInputs, local \in BOOLEAN :
         record_q' = Append(record_q,
                Record(tp.kind, "producer", plog.sent + 1, tp.req_resp, local,
                       0, tp.exit_code, tp.items))
    /\ plog' = [plog EXCEPT !.sent = @ + 1]
    /\ UNCHANGED <<settings, backend, sender_q, writer_q, result_q, hm, sm>>

\* the producer puts a record on record_q (interface.publish_* / _communicate)
ProducerSend ==
    /\ plog.sent < MaxRecords + plog.inited
    /\ \E tp \in ProducerInputs :
         /\ record_q' = Append(record_q,
                Record(tp.kind, "producer", plog.sent + 1, tp.req_resp, FALSE,
                       0, tp.exit_code, tp.items))
         /\ plog' = [plog EXCEPT !.sent = @ + 1,
                        !.exits = IF tp.kind = "exit" THEN @ + 1 ELSE @,
                        !.exitlog = IF tp.kind = "exit"
                                    THEN Append(@, [uuid |-> plog.sent + 1,
                                                    req_resp |-> tp.req_resp,
                                                    exit_code |-> tp.exit_code])
                                    ELSE @]
    /\ UNCHANGED <<settings, backend, sender_q, writer_q, result_q, hm, sm>>

\* a defer request the sender has already published is delivered once more
Redeliver ==
    /\ plog.sent < MaxRecords + plog.inited
    /\ \E i \in 1..Len(plog.published) :
         record_q' = Append(record_q,
                Record("defer", "redelivery", 0, FALSE, TRUE,
                       plog.published[i], 0, NoDict))
    /\ plog' = [plog EXCEPT !.sent = @ + 1, !.redelivered = @ + 1]
    /\ UNCHANGED <<settings, backend, sender_q, writer_q, result_q, hm, sm>>

\* the router thread takes the next record: HandleManager.handle.  An
\* exception that leaves handle() ends the thread.
Handle ==
    /\ record_q # <<>>
    /\ ~plog.hstopped
    /\ LET record == Head(record_q)
           out == handle(settings.offline, hm,
                         Queues(sender_q, writer_q, plog.sentlog), record)
       IN /\ hm' = out.h
          /\ sender_q' = out.q.sq
          /\ writer_q' = out.q.wq
          /\ result_q' = result_q \o out.res
          /\ plog' = [plog EXCEPT
                !.sentlog = out.q.sent,
                !.hstopped = out.exc # NoExc,
                !.routed = Append(@,
                    [record |-> record,
                     before |-> hm, after |-> out.h, exc |-> out.exc,
                     sent |-> SubSeq(out.q.sent, Len(plog.sentlog) + 1,
                                     Len(out.q.sent)),
                     written |-> SubSeq(out.q.wq, Len(writer_q) + 1,
                                        Len(out.q.wq))])]
    /\ record_q' = Tail(record_q)
    /\ UNCHANGED <<settings, backend, sm>>

DeferPubs(pubs) == SelectSeq(pubs, LAMBDA p : p.kind = "defer")

RECURSIVE PubStates(_)
PubStates(pubs) ==
    IF pubs = <<>> THEN <<>> ELSE <<pubs[1].state>> \o PubStates(Tail(pubs))

\* the sender thread takes the next record: SendManager.send
Send ==
    /\ sender_q # <<>>
    /\ ~plog.sstopped
    /\ ~SendBlocked(sm, Head(sender_q))
    /\ \E check_stop \in IF Head(sender_q).kind = "status" THEN StopChecks
                          ELSE {"false"} :
       LET record == Head(sender_q)
           out == send(settings.resume, backend, check_stop, sm, record)
       IN /\ sm' = out.s
          /\ record_q' = publish(record_q, out.pub)
          /\ result_q' = result_q \o out.res
          /\ plog' = [plog EXCEPT
                !.handled = IF record.kind = "defer"
                            THEN Append(@, record.state) ELSE @,
                !.published = @ \o PubStates(DeferPubs(out.pub)),
                !.ev = @ \o out.ev,
                !.sstopped = \E i \in 1..Len(out.ev) : out.ev[i].e = Raised,
                !.sends = IF record.kind \in {"run", "output", "status"}
                          THEN Append(@, [record |-> record, before |-> sm,
                                          after |-> out.s, res |-> out.res,
                                          ev |-> out.ev,
                                          check_stop |-> check_stop])
                          ELSE @,
                !.rsnap = @ \o [i \in 1..Len(out.res) |->
                                  [ended |-> END \in {plog.handled[j] :
                                                       j \in 1..Len(plog.handled)},
                                   pusher |-> sm.pusher]]]
    /\ sender_q' = Tail(sender_q)
    /\ UNCHANGED <<settings, backend, writer_q, hm>>

\* bound of the files scheduled for upload
MaxFiles == 2

\* a watched file changed: the upload pipeline queues an upload task;
\* after finish() no more files are scheduled
PusherSchedule ==
    /\ sm.pusher = "running"
    /\ Len(sm.files) < MaxFiles
    /\ sm' = [sm EXCEPT !.files = Append(@, UploadTask("queued", 0))]
    /\ UNCHANGED <<settings, backend, record_q, sender_q, writer_q, result_q,
                   hm, plog>>

\* the upload thread attempts the upload of a queued file
PusherUpload ==
    /\ PusherAlive(sm.pusher)
    /\ \E i \in 1..Len(sm.files), ok \in BOOLEAN :
         /\ sm.files[i].status = "queued"
         /\ sm' = [sm EXCEPT !.files = UploadStep(@, i, ok)]
    /\ UNCHANGED <<settings, backend, record_q, sender_q, writer_q, result_q,
                   hm, plog>>

\* wandb.init goes on: after the run record the producer sends the
\* run_start request and waits for the reply
\* (interface.communicate_run_start)
ProducerRunStart ==
    /\ plog.inited = 1
    /\ plog.sent = 1
    /\ record_q' = Append(record_q,
           Record("run_start", "producer", 2, TRUE, FALSE, 0, 0, NoDict))
    /\ plog' = [plog EXCEPT !.sent = 2]
    /\ UNCHANGED <<settings, backend, sender_q, writer_q, result_q, hm, sm>>

\* a pipeline, online or offline, whose system stats may be disabled
DeferInit ==
    /\ settings \in [offline : BOOLEAN, resume : {"none"}]
    /\ backend = NoStatus
    /\ record_q = <<>>
    /\ sender_q = <<>>
    /\ writer_q = <<>>
    /\ result_q = <<>>
    /\ hm \in { [InitHandler EXCEPT !.disable_stats = b] : b \in BOOLEAN }
    /\ sm = InitSender
    /\ plog = [sent |-> 0, inited |-> 0, exits |-> 0, exitlog |-> <<>>,
               redelivered |-> 0, routed |-> <<>>, hstopped |-> FALSE,
               sstopped |-> FALSE, sends |-> <<>>,
               handled |-> <<>>, published |-> <<>>, sentlog |-> <<>>,
               ev |-> <<>>, rsnap |-> <<>>]

\* the exit codes of the runs: success and failure
ExitCodes == {0, 1}

\* the producer ends the run with an exit record (interface.publish_exit
\* or communicate_exit)
PublishExit(req_resps, exit_codes) ==
    /\ plog.inited = 1
    /\ plog.exits = 0
    /\ \E req_resp \in req_resps, exit_code \in exit_codes :
         /\ record_q' = Append(record_q,
                Record("exit", "producer", plog.sent + 1, req_resp, FALSE,
                       0, exit_code, NoDict))
         /\ plog' = [plog EXCEPT !.sent = @ + 1, !.exits = @ + 1,
                        !.exitlog = Append(@, [uuid |-> plog.sent + 1,
                                               req_resp |-> req_resp,
                                               exit_code |-> exit_code])]
    /\ UNCHANGED <<settings, backend, sender_q, writer_q, result_q, hm, sm>>

\* the producer ends the run, with or without waiting for the exit result
ProducerExit == PublishExit(BOOLEAN, ExitCodes)

\* the producer ends a run of exit code 0 and does not wait
ProducerEnd == PublishExit({FALSE}, {0})

\* the records that feed the file stream: a history row, a summary
\* update, system stats, a line of console output
StreamInputs ==
    { Template("history", FALSE, 0, [k \in {"_step"} |-> Num(0)]),
      Template("summary", FALSE, 0,
               [update |-> <<Item("a", <<>>, Num(1))>>, remove |-> <<>>]),
      Template("stats", FALSE, 0, [stats_type |-> "SYSTEM"]),
      Template("output", FALSE, 0, Output("STDOUT", <<"b", NL>>)) }

\* the producer puts one of them on record_q, at any time after wandb.init
ProducerStream ==
    /\ plog.inited = 1
    /\ plog.sent < MaxRecords + plog.inited
    /\ \E tp \in StreamInputs :
         record_q' = Append(record_q,
                Record(tp.kind, "producer", plog.sent + 1, tp.req_resp, FALSE,
                       0, tp.exit_code, tp.items))
    /\ plog' = [plog EXCEPT !.sent = @ + 1]
    /\ UNCHANGED <<settings, backend, sender_q, writer_q, result_q, hm, sm>>

\* SendManager.finish is called, once, after the run has begun and while
\* records may still arrive
SenderFinish ==
    /\ ~plog.sstopped
    /\ sm.run # "none"
    /\ "finish" \notin {plog.ev[i].e : i \in 1..Len(plog.ev)}
    /\ LET out == finish(sm)
       IN /\ sm' = out.s
          /\ plog' = [plog EXCEPT !.ev = @ \o out.ev]
    /\ UNCHANGED <<settings, backend, record_q, sender_q, writer_q, result_q,
                   hm>>

\* the upload thread has drained its queue after finish() and ends
PusherDrain ==
    /\ sm.pusher = "finishing"
    /\ Settled(sm.files)
    /\ sm' = [sm EXCEPT !.pusher = "dead"]
    /\ UNCHANGED <<settings, backend, record_q, sender_q, writer_q, result_q,
                   hm, plog>>

(***************************************************************************)
(* wandb_agent.py: the sweep agent and the processes of its runs.          *)
(*   agent.a        the Agent object: _run_processes (run id -> process),  *)
(*                  _kill_delay, _running; the stopwatch; the number of    *)
(*                  processes started                                      *)
(*   agent.signals  the terminate() and kill() calls made so far           *)
(*   agent.first    for each process, the time of the first stop command   *)
(*                  addressed to it                                        *)
(*   agent.last     the command processed in the last step, with the       *)
(*                  signals it sent                                        *)
(***************************************************************************)
\* bounds of the agent: processes started, the stopwatch and the kill delay
MaxProcs == 2
MaxNow == 3
MaxDelay == 1

\* the run ids of the commands
RunIds == {1, 2}

\* last_sigterm_time = None
NoTime == <<>>

\* last_sigterm_time = t
At(t) == <<t>>

\* no entry in _run_processes
NoProc == [pid |-> 0, last_sigterm_time |-> NoTime]

\* AgentProcess, as _command_run leaves it: running, last_sigterm_time None
AgentProcess(pid) == [pid |-> pid, last_sigterm_time |-> NoTime]

\* Agent.__init__
NewAgent(kill_delay) ==
    [run_processes |-> [r \in RunIds |-> NoProc], kill_delay |-> kill_delay,
     running |-> TRUE, ended |-> FALSE, now |-> 0, started |-> 0]

Signal(pid, sig, by) == [pid |-> pid, sig |-> sig, by |-> by]

Range(seq) == {seq[i] : i \in 1..Len(seq)}

\* what a command leaves: the agent and the signals it sent
AOut(a, sigs) == [a |-> a, sigs |-> sigs]

\* _command_stop that kills as soon as kill_delay has elapsed
_command_stop_at_delay(a, run_id) ==
    LET proc == a.run_processes[run_id]
        now == a.now
    IN IF proc # NoProc
       THEN IF proc.last_sigterm_time = NoTime
            THEN AOut([a EXCEPT !.run_processes[run_id].last_sigterm_time = At(now)],
                      <<Signal(proc.pid, "terminate", "stop")>>)
            ELSE IF now >= proc.last_sigterm_time[1] + a.kill_delay
            THEN AOut(a, <<Signal(proc.pid, "kill", "stop")>>)
            ELSE AOut(a, <<>>)
       ELSE AOut(a, <<>>)

\* Agent._command_stop.  An OSError of terminate() or kill(), raised when
\* the process is already dead, is caught: the call was made all the same.
_command_stop(a, run_id) ==
    LET proc == a.run_processes[run_id]
        now == a.now
    IN IF proc # NoProc
       THEN IF proc.last_sigterm_time = NoTime
            THEN AOut([a EXCEPT !.run_processes[run_id].last_sigterm_time = At(now)],
                      <<Signal(proc.pid, "terminate", "stop")>>)
            ELSE IF now > proc.last_sigterm_time[1] + a.kill_delay
            THEN AOut(a, <<Signal(proc.pid, "kill", "stop")>>)
            ELSE AOut(a, <<>>)
       ELSE AOut(a, <<>>)

\* the signals sent to every process of _run_processes, in the order of
\* the run ids
RECURSIVE SignalAll(_, _, _, _)
SignalAll(a, r, sig, by) ==
    IF r \notin RunIds THEN <<>>
    ELSE (IF a.run_processes[r] # NoProc
          THEN <<Signal(a.run_processes[r].pid, sig, by)>>
          ELSE <<>>) \o SignalAll(a, r + 1, sig, by)

\* Agent._command_exit
_command_exit(a) ==
    AOut([a EXCEPT !.running = FALSE], SignalAll(a, 1, "kill", "exit"))

\* Agent._command_run: a new process takes the entry of the run id
_command_run(a, run_id) ==
    AOut([a EXCEPT !.run_processes[run_id] = AgentProcess(a.started + 1),
                   !.started = @ + 1], <<>>)

\* no command processed yet
NoCommand == [type |-> "none", run_id |-> 0, pid |-> 0, sigs |-> <<>>]

\* the agent processes a command of the queue (Agent._process_command)
Command(type, run_id, out) ==
    /\ agent.a.running /\ ~agent.a.ended
    /\ LET pid == IF run_id \in RunIds
                  THEN agent.a.run_processes[run_id].pid ELSE 0
       IN agent' = [agent EXCEPT
              !.a = out.a,
              !.signals = @ \cup Range(out.sigs),
              !.first = IF type = "stop" /\ pid # 0 /\ @[pid] = NoTime
                        THEN [@ EXCEPT ![pid] = At(agent.a.now)] ELSE @,
              !.last = [type |-> type, run_id |-> run_id, pid |-> pid,
                        sigs |-> out.sigs]]

\* the state of the agent before any command
StartAgent(kill_delay) ==
    [a |-> NewAgent(kill_delay), signals |-> {},
     first |-> [pid \in 1..MaxProcs |-> NoTime], last |-> NoCommand]

CommandRun ==
    /\ agent.a.started < MaxProcs
    /\ \E run_id \in RunIds :
         Command("run", run_id, _command_run(agent.a, run_id))
    /\ UNCHANGED backend_obj

CommandStop ==
    /\ \E run_id \in RunIds :
         Command("stop", run_id, _command_stop(agent.a, run_id))
    /\ UNCHANGED backend_obj

CommandExit ==
    /\ Command("exit", 0, _command_exit(agent.a))
    /\ UNCHANGED backend_obj

\* util.stopwatch_now() advances
Tick ==
    /\ agent.a.now < MaxNow
    /\ agent' = [agent EXCEPT !.a.now = @ + 1, !.last = NoCommand]
    /\ UNCHANGED backend_obj

\* Agent.run, the loop body: a run whose process has ended, by itself or
\* by a signal (poll() is not None), leaves _run_processes
RunPoll ==
    /\ agent.a.running /\ ~agent.a.ended
    /\ \E r \in RunIds :
         /\ agent.a.run_processes[r] # NoProc
         /\ agent' = [agent EXCEPT !.a.run_processes[r] = NoProc,
                                   !.last = NoCommand]
    /\ UNCHANGED backend_obj

\* Agent.run, the finally block: every run is sent terminate; a keyboard
\* interrupt during the wait has every run killed
RunFinally ==
    /\ ~agent.a.ended
    /\ \E interrupted \in BOOLEAN :
         agent' = [agent EXCEPT
            !.a.ended = TRUE, !.a.running = FALSE, !.last = NoCommand,
            !.signals = @ \cup Range(SignalAll(agent.a, 1, "terminate",
                                                "finally"))
                          \cup IF interrupted
                               THEN Range(SignalAll(agent.a, 1, "kill",
                                                    "finally"))
                               ELSE {}]
    /\ UNCHANGED backend_obj

(***************************************************************************)
(* backend.py: Backend.cleanup, called by the threads of the user process. *)
(*   backend_obj.done    Backend._done                                     *)
(*   backend_obj.pc      where each thread is in cleanup ("idle": outside) *)
(*   backend_obj.calls   the calls of cleanup made so far                  *)
(*   backend_obj.n       how many times each teardown call was made        *)
(*   backend_obj.overlap two threads have been inside cleanup at once      *)
(***************************************************************************)
\* bounds: the threads of the user process and the calls of cleanup
MaxThreads == 2
MaxCalls == 3

Threads == 1..MaxThreads

\* the teardown calls of cleanup, in the order of the code
Teardown == <<"interface.join", "wandb_process.join", "record_q.close",
              "result_q.close">>

TeardownCalls == {Teardown[i] : i \in 1..Len(Teardown)}

\* Backend.__init__, before any call of cleanup
NewBackend ==
    [done |-> FALSE, pc |-> [t \in Threads |-> "idle"], calls |-> 0,
     n |-> [c \in TeardownCalls |-> 0], overlap |-> FALSE]

\* the statement after a teardown call: the next one, or the return
AfterTeardown(c) ==
    IF c = Teardown[Len(Teardown)] THEN "idle"
    ELSE Teardown[(CHOOSE i \in 1..Len(Teardown) : Teardown[i] = c) + 1]

\* one statement of Backend.cleanup, executed by thread t
cleanup_step(b, t) ==
    LET at == b.pc[t]
    IN IF at = "if _done"
       THEN [b EXCEPT !.pc[t] = IF b.done THEN "idle" ELSE "_done = True"]
       ELSE IF at = "_done = True"
       THEN [b EXCEPT !.done = TRUE, !.pc[t] = Teardown[1]]
       ELSE [b EXCEPT !.n[at] = @ + 1, !.pc[t] = AfterTeardown(at)]

\* a thread calls Backend.cleanup
CleanupCall ==
    /\ backend_obj.calls < MaxCalls
    /\ \E t \in Threads :
         /\ backend_obj.pc[t] = "idle"
         /\ backend_obj' = [backend_obj EXCEPT
                !.pc[t] = "if _done", !.calls = @ + 1,
                !.overlap = @ \/ \E u \in Threads : backend_obj.pc[u] # "idle"]
    /\ UNCHANGED agent

\* a thread inside cleanup executes its next statement
CleanupStep ==
    /\ \E t \in Threads :
         /\ backend_obj.pc[t] # "idle"
         /\ backend_obj' = cleanup_step(backend_obj, t)
    /\ UNCHANGED agent

\* the state of the processes around the pipelines that do not involve them
HostInit ==
    /\ agent = StartAgent(0)
    /\ backend_obj = NewBackend

(***************************************************************************)
(* Specifications.                                                         *)
(***************************************************************************)
\* the record pipeline and its shutdown sequence
Init == StoreInit /\ HostInit /\ PipeInit({FALSE})

\* the agent alone, with every kill delay
AgentInit ==
    /\ agent \in {StartAgent(d) : d \in 0..MaxDelay}
    /\ backend_obj = NewBackend

InitAgent == StoreInit /\ PipeInit({FALSE}) /\ AgentInit

NextAgent ==
    \/ CommandRun /\ UNCHANGED <<storeVars, pipeVars>>
    \/ CommandStop /\ UNCHANGED <<storeVars, pipeVars>>
    \/ CommandExit /\ UNCHANGED <<storeVars, pipeVars>>
    \/ Tick /\ UNCHANGED <<storeVars, pipeVars>>
    \/ RunPoll /\ UNCHANGED <<storeVars, pipeVars>>
    \/ RunFinally /\ UNCHANGED <<storeVars, pipeVars>>

SpecAgent == InitAgent /\ [][NextAgent]_vars

\* the threads of the user process calling Backend.cleanup
NextCleanup ==
    \/ CleanupCall /\ UNCHANGED <<storeVars, pipeVars>>
    \/ CleanupStep /\ UNCHANGED <<storeVars, pipeVars>>

SpecCleanup == Init /\ [][NextCleanup]_vars


Next ==
    \/ ProducerInit /\ UNCHANGED <<storeVars, hostVars>>
    \/ ProducerSend /\ UNCHANGED <<storeVars, hostVars>>
    \/ Handle /\ UNCHANGED <<storeVars, hostVars>>
    \/ Send /\ UNCHANGED <<storeVars, hostVars>>
    \/ PusherDrain /\ UNCHANGED <<storeVars, hostVars>>

Spec == Init /\ [][Next]_vars

\* the same pipeline when published defer requests may be delivered again
NextRedeliver ==
    \/ ProducerInit /\ UNCHANGED <<storeVars, hostVars>>
    \/ ProducerSend /\ UNCHANGED <<storeVars, hostVars>>
    \/ Redeliver /\ UNCHANGED <<storeVars, hostVars>>
    \/ Handle /\ UNCHANGED <<storeVars, hostVars>>
    \/ Send /\ UNCHANGED <<storeVars, hostVars>>
    \/ PusherDrain /\ UNCHANGED <<storeVars, hostVars>>

SpecRedeliver == Init /\ [][NextRedeliver]_vars

\* the pipeline and its shutdown sequence in online and in offline runs
InitShutdown == StoreInit /\ HostInit /\ PipeInit(BOOLEAN)

SpecShutdown == InitShutdown /\ [][Next]_vars

\* the router alone, online and offline, with history rows among the records
InitRouter == StoreInit /\ HostInit /\ PipeInit(BOOLEAN)

NextRouter ==
    \/ ProducerInit /\ UNCHANGED <<storeVars, hostVars>>
    \/ ProducerSend /\ UNCHANGED <<storeVars, hostVars>>
    \/ ProducerLog /\ UNCHANGED <<storeVars, hostVars>>
    \/ Handle /\ UNCHANGED <<storeVars, hostVars>>

SpecRouter == InitRouter /\ [][NextRouter]_vars

\* the router on records with default routing, local or not
NextRouting ==
    \/ ProducerData /\ UNCHANGED <<storeVars, hostVars>>
    \/ Handle /\ UNCHANGED <<storeVars, hostVars>>

SpecRouting == InitRouter /\ [][NextRouting]_vars

\* the router on history rows and summary records
NextSummary ==
    \/ ProducerLog /\ UNCHANGED <<storeVars, hostVars>>
    \/ ProducerSummary /\ UNCHANGED <<storeVars, hostVars>>
    \/ Handle /\ UNCHANGED <<storeVars, hostVars>>

SpecSummary == InitRouter /\ [][NextSummary]_vars

\* the router on summary records of one item and of several items
NextPartial ==
    \/ ProducerSummary /\ UNCHANGED <<storeVars, hostVars>>
    \/ ProducerPartial /\ UNCHANGED <<storeVars, hostVars>>
    \/ Handle /\ UNCHANGED <<storeVars, hostVars>>

SpecPartial == InitRouter /\ [][NextPartial]_vars

\* run records and history rows against a backend that may have the run
InitResume == StoreInit /\ HostInit /\ ResumeInit

NextResume ==
    \/ ProducerRun /\ UNCHANGED <<storeVars, hostVars>>
    \/ ProducerLog /\ UNCHANGED <<storeVars, hostVars>>
    \/ Handle /\ UNCHANGED <<storeVars, hostVars>>
    \/ Send /\ UNCHANGED <<storeVars, hostVars>>

SpecResume == InitResume /\ [][NextResume]_vars

\* console output of a run
NextOutput ==
    \/ ProducerInit /\ UNCHANGED <<storeVars, hostVars>>
    \/ ProducerOutput /\ UNCHANGED <<storeVars, hostVars>>
    \/ Handle /\ UNCHANGED <<storeVars, hostVars>>
    \/ Send /\ UNCHANGED <<storeVars, hostVars>>

SpecOutput == Init /\ [][NextOutput]_vars

\* records for the file stream before and after the file stream ends
NextFinish ==
    \/ ProducerInit /\ UNCHANGED <<storeVars, hostVars>>
    \/ ProducerStream /\ UNCHANGED <<storeVars, hostVars>>
    \/ ProducerEnd /\ UNCHANGED <<storeVars, hostVars>>
    \/ Handle /\ UNCHANGED <<storeVars, hostVars>>
    \/ Send /\ UNCHANGED <<storeVars, hostVars>>
    \/ SenderFinish /\ UNCHANGED <<storeVars, hostVars>>
    \/ PusherDrain /\ UNCHANGED <<storeVars, hostVars>>

SpecFinish == Init /\ [][NextFinish]_vars

\* status requests of the producer, before and after wandb.init
NextStatus ==
    \/ ProducerInit /\ UNCHANGED <<storeVars, hostVars>>
    \/ ProducerStatus /\ UNCHANGED <<storeVars, hostVars>>
    \/ Handle /\ UNCHANGED <<storeVars, hostVars>>
    \/ Send /\ UNCHANGED <<storeVars, hostVars>>

SpecStatus == Init /\ [][NextStatus]_vars

\* a run whose files are uploaded while it goes on and ends; the upload
\* thread, the router and the sender keep running
NextUpload ==
    \/ ProducerInit /\ UNCHANGED <<storeVars, hostVars>>
    \/ ProducerExit /\ UNCHANGED <<storeVars, hostVars>>
    \/ Handle /\ UNCHANGED <<storeVars, hostVars>>
    \/ Send /\ UNCHANGED <<storeVars, hostVars>>
    \/ PusherSchedule /\ UNCHANGED <<storeVars, hostVars>>
    \/ PusherUpload /\ UNCHANGED <<storeVars, hostVars>>
    \/ PusherDrain /\ UNCHANGED <<storeVars, hostVars>>

\* a run, online or offline, started by wandb.init, that logs history
\* rows and ends
InitDefer == StoreInit /\ HostInit /\ DeferInit

NextDefer ==
    \/ ProducerInit /\ UNCHANGED <<storeVars, hostVars>>
    \/ ProducerRunStart /\ UNCHANGED <<storeVars, hostVars>>
    \/ ProducerLog /\ UNCHANGED <<storeVars, hostVars>>
    \/ ProducerExit /\ UNCHANGED <<storeVars, hostVars>>
    \/ Handle /\ UNCHANGED <<storeVars, hostVars>>
    \/ Send /\ UNCHANGED <<storeVars, hostVars>>
    \/ PusherDrain /\ UNCHANGED <<storeVars, hostVars>>

SpecDefer == InitDefer /\ [][NextDefer]_vars

\* the same records in online and offline runs that end with an exit
NextDurable ==
    \/ ProducerInit /\ UNCHANGED <<storeVars, hostVars>>
    \/ ProducerStream /\ UNCHANGED <<storeVars, hostVars>>
    \/ ProducerEnd /\ UNCHANGED <<storeVars, hostVars>>
    \/ Handle /\ UNCHANGED <<storeVars, hostVars>>
    \/ Send /\ UNCHANGED <<storeVars, hostVars>>
    \/ PusherDrain /\ UNCHANGED <<storeVars, hostVars>>

SpecDurable == InitDefer /\ [][NextDurable]_vars

SpecUpload ==
    /\ Init /\ [][NextUpload]_vars
    /\ WF_vars(PusherUpload /\ UNCHANGED <<storeVars, hostVars>>)
    /\ WF_vars(PusherDrain /\ UNCHANGED <<storeVars, hostVars>>)
    /\ WF_vars(Handle /\ UNCHANGED <<storeVars, hostVars>>)
    /\ WF_vars(Send /\ UNCHANGED <<storeVars, hostVars>>)

\* the log store: write, append and scan sessions on one file
InitStore == StoreInit /\ HostInit /\ PipeInit({FALSE})

NextStore ==
    \/ NewDataStore /\ UNCHANGED <<pipeVars, hostVars>>
    \/ open_for_write /\ UNCHANGED <<pipeVars, hostVars>>
    \/ open_for_append /\ UNCHANGED <<pipeVars, hostVars>>
    \/ WriteData /\ UNCHANGED <<pipeVars, hostVars>>
    \/ close /\ UNCHANGED <<pipeVars, hostVars>>
    \/ open_for_scan /\ UNCHANGED <<pipeVars, hostVars>>
    \/ ScanData /\ UNCHANGED <<pipeVars, hostVars>>

SpecStore == InitStore /\ [][NextStore]_vars

\* scanning files made of arbitrary chunk sequences, possibly altered
NextScan ==
    \/ NewDataStore /\ UNCHANGED <<pipeVars, hostVars>>
    \/ open_for_write /\ UNCHANGED <<pipeVars, hostVars>>
    \/ WriteRecordRaw /\ UNCHANGED <<pipeVars, hostVars>>
    \/ close /\ UNCHANGED <<pipeVars, hostVars>>
    \/ Corrupt /\ UNCHANGED <<pipeVars, hostVars>>
    \/ open_for_scan /\ UNCHANGED <<pipeVars, hostVars>>
    \/ ScanData /\ UNCHANGED <<pipeVars, hostVars>>

SpecScan == InitStore /\ [][NextScan]_vars

\* opening and scanning files found at the path
NextHeader ==
    \/ PutFile /\ UNCHANGED <<pipeVars, hostVars>>
    \/ NewDataStore /\ UNCHANGED <<pipeVars, hostVars>>
    \/ open_for_scan /\ UNCHANGED <<pipeVars, hostVars>>
    \/ ScanData /\ UNCHANGED <<pipeVars, hostVars>>
    \/ close /\ UNCHANGED <<pipeVars, hostVars>>

SpecHeader == InitStore /\ [][NextHeader]_vars

\* scanning logs whose padding may have been altered
NextPad ==
    \/ NewDataStore /\ UNCHANGED <<pipeVars, hostVars>>
    \/ open_for_write /\ UNCHANGED <<pipeVars, hostVars>>
    \/ WriteData /\ UNCHANGED <<pipeVars, hostVars>>
    \/ close /\ UNCHANGED <<pipeVars, hostVars>>
    \/ CorruptPad /\ UNCHANGED <<pipeVars, hostVars>>
    \/ open_for_scan /\ UNCHANGED <<pipeVars, hostVars>>
    \/ ScanData /\ UNCHANGED <<pipeVars, hostVars>>

SpecPad == InitStore /\ [][NextPad]_vars

(***************************************************************************)
(* Properties of the log store.                                            *)
(***************************************************************************)
\* the file was written in one write session, left unaltered, and is scanned
CleanWriteScan ==
    /\ ds.mode = "scan"
    /\ env.sessions = <<"write">>
    /\ env.corrupt = NoCorrupt

\* C1: round trip.  Scanning a log written by successive _write_data calls
\* returns the written payloads, byte for byte and in order: the i-th
\* scan_data call returns the i-th payload, and no call after the last
\* payload returns a record.
C1_RoundTrip ==
    CleanWriteScan =>
        \A i \in 1..Len(rlog) :
            IF i <= Len(wlog)
            THEN rlog[i].kind = "data" /\ rlog[i].data = wlog[i].s
            ELSE rlog[i].kind # "data"

\* an empty payload and one larger than a block were written, both were read
\* back and the scan was called once more
C1_Witness ==
    /\ CleanWriteScan
    /\ Len(wlog) = 2
    /\ wlog[1].s = <<>>
    /\ Len(wlog[2].s) > LEVELDBLOG_BLOCK_LEN
    /\ Len(wlog[2].chunks) = 3
    /\ Len(rlog) = 3
    /\ rlog[2].data = wlog[2].s

\* C2: clean end of stream.  Once scan_data has returned every record of a
\* closed log, the next call returns None (kind "eof") and does not raise,
\* wherever in the block the last chunk ends.
C2_CleanEndOfStream ==
    (CleanWriteScan /\ Len(rlog) > Len(wlog)) =>
        rlog[Len(wlog) + 1].kind = "eof"

\* C6: append mode continues the log.  After a write session and an append
\* session the file opens for scan, and the scan returns the payloads of
\* both sessions in the order written.
C6_AppendContinues ==
    (env.sessions = <<"write", "append">> /\ ds.opened_for_scan) =>
        /\ ds.mode = "scan"
        /\ \A i \in 1..Len(rlog) :
             i <= Len(wlog) =>
                rlog[i].kind = "data" /\ rlog[i].data = wlog[i].s

ChunkDtypes(chunks) == [c \in 1..Len(chunks) |-> chunks[c].dtype]

\* bytes left in the block when the append starts
BlockRoom(e) == LEVELDBLOG_BLOCK_LEN - (e.start % LEVELDBLOG_BLOCK_LEN)

\* C7: block-boundary split rule.  With R >= 7 bytes left in the block, a
\* payload of R - 7 bytes is written as one FULL chunk without padding and
\* a payload of R - 6 bytes as a FIRST chunk ending on the block boundary
\* and a LAST chunk; every append grows the file by the payload length plus
\* 7 bytes per chunk plus the padding, and returns that length.
C7_SplitRule ==
    \A i \in 1..Len(wlog) :
        LET e == wlog[i]
            R == BlockRoom(e)
        IN /\ (R >= LEVELDBLOG_HEADER_LEN
                 /\ Len(e.s) + LEVELDBLOG_HEADER_LEN = R) =>
                 /\ ChunkDtypes(e.chunks) = <<LEVELDBLOG_FULL>>
                 /\ e.pad = 0
           /\ (R >= LEVELDBLOG_HEADER_LEN
                 /\ Len(e.s) + LEVELDBLOG_HEADER_LEN = R + 1) =>
                 /\ ChunkDtypes(e.chunks)
                      = <<LEVELDBLOG_FIRST, LEVELDBLOG_LAST>>
                 /\ (e.chunks[2].at % LEVELDBLOG_BLOCK_LEN) = 0
                 /\ e.chunks[1].dlength + e.chunks[2].dlength = Len(e.s)
                 /\ e.pad = 0
           /\ e.size1 - e.size0
                = Len(e.s) + LEVELDBLOG_HEADER_LEN * Len(e.chunks) + e.pad
           /\ e.ret = <<e.start, e.size1 - e.size0>>

\* a payload that fills its block exactly, then one a byte too long for
\* the next block
C7_Witness ==
    /\ Len(wlog) = 2
    /\ BlockRoom(wlog[1]) < LEVELDBLOG_BLOCK_LEN
    /\ Len(wlog[1].s) + LEVELDBLOG_HEADER_LEN = BlockRoom(wlog[1])
    /\ Len(wlog[2].s) + LEVELDBLOG_HEADER_LEN = BlockRoom(wlog[2]) + 1
    /\ Len(wlog[2].chunks) = 2

\* the scan calls that read the altered bytes
ReadsAltered(i) ==
    /\ env.corrupt # NoCorrupt
    /\ rlog[i].from <= env.corrupt.at
    /\ env.corrupt.at < rlog[i].to

ChecksumError(i) ==
    rlog[i].kind = "raise" /\ rlog[i].exc = "AssertionError: checksum"

\* C8 as stated: whatever the alteration of a chunk's payload, the scan call
\* that reads the chunk fails with the checksum assertion.
C8_AnyAlterationDetected ==
    ds.mode = "scan" =>
        \A i \in 1..Len(rlog) : ReadsAltered(i) => ChecksumError(i)

\* C8: checksum corruption detection.  If one bit of a chunk's payload is
\* flipped and the headers are intact, the scan call that reads the chunk
\* fails with the checksum assertion: it returns neither a payload nor None.
C8_BitFlipDetected ==
    (ds.mode = "scan" /\ env.corrupt.kind = "bit") =>
        \A i \in 1..Len(rlog) : ReadsAltered(i) => ChecksumError(i)

\* a flipped bit in the payload of a FULL chunk, read and rejected
C8_Witness ==
    /\ ds.mode = "scan"
    /\ env.corrupt.kind = "bit"
    /\ \E i \in 1..Len(rlog) :
         /\ ReadsAltered(i)
         /\ ChecksumError(i)
         /\ rlog[i].types = <<LEVELDBLOG_FULL>>

\* FULL, or FIRST MIDDLE* LAST
WellFormed(types) ==
    \/ types = <<LEVELDBLOG_FULL>>
    \/ /\ Len(types) >= 2
       /\ types[1] = LEVELDBLOG_FIRST
       /\ types[Len(types)] = LEVELDBLOG_LAST
       /\ \A k \in 2..(Len(types) - 1) : types[k] = LEVELDBLOG_MIDDLE

\* C9: chunk-type sequencing.  scan_data returns a payload only for the
\* chunks FULL or FIRST MIDDLE* LAST; a record that starts with MIDDLE or
\* LAST, and a FULL or FIRST chunk after a FIRST, raise an assertion.
C9_ChunkSequencing ==
    (ds.mode = "scan" /\ env.corrupt = NoCorrupt) =>
        \A i \in 1..Len(rlog) :
            LET r == rlog[i]
                n == Len(r.types)
            IN /\ r.kind = "data" => WellFormed(r.types)
               /\ (n >= 1 /\ r.types[1] \in {LEVELDBLOG_MIDDLE, LEVELDBLOG_LAST})
                    => r.kind = "raise" /\ r.exc = "AssertionError: dtype == FIRST"
               /\ (n >= 2 /\ r.types[n] \in {LEVELDBLOG_FULL, LEVELDBLOG_FIRST})
                    => r.kind = "raise" /\ r.exc = "AssertionError: dtype == MIDDLE"

\* a record FIRST MIDDLE LAST was returned, or FIRST MIDDLE FULL was rejected
C9_Witness ==
    /\ ds.mode = "scan"
    /\ env.corrupt = NoCorrupt
    /\ Len(rlog) >= 1
    /\ rlog[Len(rlog)].kind = "raise"
    /\ rlog[Len(rlog)].types
         = <<LEVELDBLOG_FIRST, LEVELDBLOG_MIDDLE, LEVELDBLOG_FULL>>

(***************************************************************************)
(* Properties of the record pipeline.                                      *)
(***************************************************************************)
\* BEGIN, FLUSH_STATS, ..., END in order
DeferChain == [i \in 1..(END + 1) |-> i - 1]

IsPrefix(s, u) == Len(s) <= Len(u) /\ s = SubSeq(u, 1, Len(s))

CountOf(seq, P(_)) == Cardinality({i \in 1..Len(seq) : P(seq[i])})

IsEnd(state) == state = END

IsExitResult(result) == result.kind = "exit"

\* C3: defer monotonicity under re-delivery.  With one exit record, and
\* defer requests delivered again in any number and order, the sender
\* handles the states BEGIN to END one step at a time, handles END at most
\* once, and puts at most one exit result on result_q.
C3_DeferMonotonic ==
    plog.exits <= 1 =>
        /\ IsPrefix(plog.handled, DeferChain)
        /\ CountOf(plog.handled, IsEnd) <= 1
        /\ CountOf(result_q, IsExitResult) <= 1

\* C4: with exactly one exit record, the sender handles BEGIN, ..., END in
\* this order, each once; handling a state other than END publishes the
\* defer request of the next state and no other defer request, and
\* handling END publishes none.
C4_DeferSequence ==
    plog.exits <= 1 =>
        /\ IsPrefix(plog.handled, DeferChain)
        /\ IsPrefix(plog.published, DeferChain)
        /\ plog.handled # <<>> =>
             Len(plog.published) = Min(Len(plog.handled) + 1, END + 1)

\* the whole sequence has run
C4_Witness ==
    /\ plog.exits = 1
    /\ plog.handled = DeferChain
    /\ plog.published = DeferChain
    /\ record_q = <<>>
    /\ sender_q = <<>>

\* the uuids of the producer's records in a queue, in queue order
RECURSIVE ProducerUuids(_)
ProducerUuids(q) ==
    IF q = <<>> THEN <<>>
    ELSE IF q[1].origin = "producer"
    THEN <<q[1].uuid>> \o ProducerUuids(Tail(q))
    ELSE ProducerUuids(Tail(q))

Increasing(seq) == \A i \in 1..(Len(seq) - 1) : seq[i] < seq[i + 1]

\* C5: order preservation in the router.  The producer numbers its records
\* in the order it enqueues them.  The producer's records appear on the
\* writer queue and among the puts on the sender queue in increasing
\* order; every handled record is on the writer queue and, online, on the
\* sender queue.
C5_RouterOrder ==
    LET n == plog.sent - Len(ProducerUuids(record_q))
    IN /\ ProducerUuids(writer_q) = [i \in 1..n |-> i]
       /\ Increasing(ProducerUuids(plog.sentlog))
       /\ ~settings.offline =>
             ProducerUuids(plog.sentlog) = [i \in 1..n |-> i]

\* three records routed online, with a summary record made by the router
\* put between two of them
C5_Witness ==
    /\ ~settings.offline
    /\ Len(ProducerUuids(plog.sentlog)) = 3
    /\ \E i \in 1..(Len(plog.sentlog) - 1) :
         /\ plog.sentlog[i].origin = "router"
         /\ plog.sentlog[i + 1].origin = "producer"

\* the upload pipeline is absent or its thread has ended
PusherIdle(pusher) == pusher \in {"none", "dead"}

\* C10: poll-exit completion.  The reply to a poll_exit request has
\* done=true and the exit result exactly when, at the time the sender
\* answers, it has handled defer END and the upload pipeline is absent or
\* not alive; otherwise done=false and no exit result.
C10_PollExitDone ==
    /\ Len(plog.rsnap) = Len(result_q)
    /\ \A i \in 1..Len(result_q) :
         result_q[i].kind = "poll_exit" =>
            /\ result_q[i].done
                 = (plog.rsnap[i].ended /\ PusherIdle(plog.rsnap[i].pusher))
            /\ result_q[i].exit_result = result_q[i].done

\* a poll answered done=true after the upload thread of an initialised run
\* has drained
C10_Witness ==
    \E i \in 1..Len(result_q) :
        /\ result_q[i].kind = "poll_exit"
        /\ result_q[i].done
        /\ plog.rsnap[i].pusher = "dead"

\* END is among the defer states the sender has handled
EndHandled == \E j \in 1..Len(plog.handled) : plog.handled[j] = END

\* C11: synchronous exit delivery.  With one exit record: if it asked for a
\* reply, handling END puts one result with the exit record's uuid on
\* result_q, after the upload pipeline has drained and been joined; if it
\* did not, handling END puts no result on result_q and leaves the exit
\* result to be fetched by poll_exit.
C11_SyncExitDelivery ==
    plog.exits = 1 =>
        LET exit == plog.exitlog[1]
        IN /\ \A i \in 1..Len(result_q) :
                result_q[i].kind = "exit" =>
                   /\ exit.req_resp
                   /\ result_q[i].uuid = exit.uuid
                   /\ PusherIdle(plog.rsnap[i].pusher)
           /\ CountOf(result_q, IsExitResult)
                = IF exit.req_resp /\ EndHandled THEN 1 ELSE 0
           /\ EndHandled =>
                /\ sm.exit_result
                /\ exit.req_resp => sm.pusher = "none"

\* a run with an upload pipeline: the exit result was put once the upload
\* thread had ended
C11_Witness ==
    /\ plog.exits = 1
    /\ plog.exitlog[1].req_resp
    /\ \E i \in 1..Len(result_q) :
         /\ result_q[i].kind = "exit"
         /\ plog.rsnap[i].pusher = "dead"
    /\ \E j \in 1..Len(plog.ev) : plog.ev[j].e = "pusher.join"

ShutdownKinds == {"exit", "final", "poll_exit"}

IsShutdownRecord(record) == record.kind \in ShutdownKinds

IsDefer(record) == record.kind = "defer"

\* the defer states of the defer requests in a queue, in queue order
RECURSIVE DeferStatesOf(_)
DeferStatesOf(q) ==
    IF q = <<>> THEN <<>>
    ELSE IF q[1].kind = "defer"
    THEN <<q[1].state>> \o DeferStatesOf(Tail(q))
    ELSE DeferStatesOf(Tail(q))

\* C12: shutdown records always reach the sender.  Online and offline,
\* every exit, final and poll_exit record the router has handled (they are
\* all on writer_q) was put on sender_q, and so was every defer request
\* published and no longer on record_q; once an exit record was sent and
\* the queues are empty, the sender has handled END.
C12_ShutdownReachesSender ==
    /\ SelectSeq(plog.sentlog, IsShutdownRecord)
         = SelectSeq(writer_q, IsShutdownRecord)
    /\ DeferStatesOf(plog.sentlog) \o DeferStatesOf(record_q) = plog.published
    /\ (plog.exits >= 1 /\ record_q = <<>> /\ sender_q = <<>>) => EndHandled

\* an offline run whose shutdown sequence has reached END, with a poll
\* answered afterwards
C12_Witness ==
    /\ settings.offline
    /\ plog.handled = DeferChain
    /\ \E i \in 1..Len(plog.sentlog) : plog.sentlog[i].kind = "final"
    /\ \E i \in 1..Len(result_q) :
         result_q[i].kind = "poll_exit" /\ result_q[i].done

FromProducer(record) == record.origin = "producer"

\* C13: default routing policy.  A record of a kind with default routing
\* (run, stats, config, output, files, artifact, alert, header, footer,
\* tbrecord, history) is put on writer_q unless it is marked local, online
\* and offline, and on sender_q exactly when the run is online.
C13_DefaultRouting ==
    \A i \in 1..Len(plog.routed) :
        LET e == plog.routed[i]
            r == e.record
        IN r.kind \in DefaultKinds \cup {"history"} =>
              /\ e.exc = NoExc
              /\ e.written = IF r.local THEN <<>> ELSE <<r>>
              /\ SelectSeq(e.sent, FromProducer)
                   = IF settings.offline THEN <<>> ELSE <<r>>

\* offline: a local record went to neither queue, and a record not marked
\* local went to the writer queue only
C13_Witness ==
    /\ settings.offline
    /\ Len(plog.routed) = 2
    /\ plog.routed[1].record.local
    /\ plog.routed[1].record.kind = "tbrecord"
    /\ ~plog.routed[2].record.local
    /\ plog.routed[2].record.kind = "history"
    /\ writer_q = <<plog.routed[2].record>>
    /\ sender_q = <<>>

\* the summary record _save_summary makes of a consolidated summary
SummaryOf(h) == Record("summary", "router", 0, FALSE, FALSE, 0, 0,
                       h.consolidated_summary)

\* what C14 asks of one handle() call on a history or summary record: the
\* last put on sender_q is the summary record of the whole consolidated
\* summary, right after the triggering record if that was forwarded
FlushedAfter(e) ==
    /\ e.sent # <<>>
    /\ e.sent[Len(e.sent)] = SummaryOf(e.after)
    /\ Len(e.sent) = IF e.record.kind = "history" THEN 2 ELSE 1
    /\ e.record.kind = "history" => e.sent[1] = e.record

\* C14: summary flushed after every mutation.  After the router has
\* handled a history record or a summary record, a summary record carrying
\* the whole consolidated summary has been put on sender_q, right after
\* the triggering record.
C14_SummaryFlushed ==
    \A i \in 1..Len(plog.routed) :
        LET e == plog.routed[i]
        IN (e.record.kind \in {"history", "summary"} /\ e.exc = NoExc)
              => FlushedAfter(e)

\* the same in online runs only
C14_SummaryFlushedOnline ==
    ~settings.offline =>
        \A i \in 1..Len(plog.routed) :
            LET e == plog.routed[i]
            IN (e.record.kind \in {"history", "summary"} /\ e.exc = NoExc)
                  => FlushedAfter(e)


\* a JSON number
IsNumber(v) == "num" \in DOMAIN v /\ v.num

\* the accumulators after the values chosen by `numeric` were added
Accumulated(sampled, items, numeric(_)) ==
    [k \in DOMAIN sampled \cup {k2 \in DOMAIN items : numeric(items[k2])} |->
        IF k \in DOMAIN items /\ numeric(items[k])
        THEN Append(IF k \in DOMAIN sampled THEN sampled[k] ELSE <<>>,
                    items[k])
        ELSE sampled[k]]

HistoryHandled(e, numeric(_), emitted(_)) ==
    LET r == e.record
    IN /\ e.exc = NoExc
       /\ e.written[1] = r
       /\ SelectSeq(e.sent, FromProducer)
            = IF settings.offline THEN <<>> ELSE <<r>>
       /\ e.after.sampled_history
            = Accumulated(e.before.sampled_history, r.items, numeric)
       /\ e.after.consolidated_summary
            = DictUpdate(e.before.consolidated_summary, r.items)
       /\ emitted(e)

SummaryEmitted(e) ==
    \/ \E j \in 1..Len(e.sent) : e.sent[j] = SummaryOf(e.after)
    \/ \E j \in 1..Len(e.written) : e.written[j] = SummaryOf(e.after)

SummaryEmittedOnline(e) ==
    IF settings.offline
    THEN e.sent = <<>> /\ e.written = <<e.record>>
    ELSE e.sent = <<e.record, SummaryOf(e.after)>>
         /\ e.written = <<e.record>>

\* C15: history handling.  For every history record the router (a) routes
\* it by the default policy, (b) adds each item value that is a number, and
\* no other, to the sampled-history accumulator of its key, (c) overwrites
\* the consolidated-summary entry of every key of the record and leaves the
\* other keys unchanged, and (d) emits a summary record of the consolidated
\* summary.
C15_HistoryHandling ==
    \A i \in 1..Len(plog.routed) :
        plog.routed[i].record.kind = "history"
            => HistoryHandled(plog.routed[i], IsNumber, SummaryEmitted)

\* what holds of every history record: the values accumulated are those
\* that are numbers.Real, and the summary record is put on sender_q in
\* online runs only
C15_HistoryHandlingAsCoded ==
    \A i \in 1..Len(plog.routed) :
        plog.routed[i].record.kind = "history"
            => HistoryHandled(plog.routed[i], IsReal, SummaryEmittedOnline)

\* parts (a) to (c) with numbers only, and (d) in online runs: fails on the
\* boolean item alone
C15_HistoryNumbersOnly ==
    \A i \in 1..Len(plog.routed) :
        plog.routed[i].record.kind = "history"
            => HistoryHandled(plog.routed[i], IsNumber, SummaryEmittedOnline)

\* parts (a) to (d) with the values that are numbers.Real: fails on the
\* offline run alone
C15_HistoryEmitsOffline ==
    \A i \in 1..Len(plog.routed) :
        plog.routed[i].record.kind = "history"
            => HistoryHandled(plog.routed[i], IsReal, SummaryEmitted)


\* no value at a key path
Missing == [missing |-> TRUE]

\* the value at a key path of a summary dict
RECURSIVE Lookup(_, _)
Lookup(d, path) ==
    IF path[1] \notin DOMAIN d THEN Missing
    ELSE IF Len(path) = 1 THEN d[path[1]]
    ELSE IF ~IsDictValue(d[path[1]]) THEN Missing
    ELSE Lookup(d[path[1]].d, Tail(path))

SummaryKeys == {"a", "b", "m", "x", "y", "_step", "loss", "note", "done"}

KeyPaths == { <<k>> : k \in SummaryKeys }
            \cup { <<k, l>> : k \in SummaryKeys, l \in SummaryKeys }

\* the key path a summary item names
PathOf(item) ==
    IF Len(item.nested_key) > 0 THEN item.nested_key ELSE <<item.key>>

Related(p, q) == IsPrefix(p, q) \/ IsPrefix(q, p)

\* the summary record e1 ended with the update u of a key path and was
\* handled without error
EndsWithUpdate(e1) ==
    /\ e1.record.kind = "summary"
    /\ e1.exc = NoExc
    /\ e1.record.items.update # <<>>
    /\ e1.record.items.remove = <<>>

LastUpdate(e1) == e1.record.items.update[Len(e1.record.items.update)]

SameUpdateAgain(e1, e2) ==
    /\ e2.record.kind = "summary"
    /\ e2.record.items = [update |-> <<LastUpdate(e1)>>, remove |-> <<>>]

RemoveOfSamePath(e1, e2) ==
    /\ e2.record.kind = "summary"
    /\ e2.record.items.update = <<>>
    /\ Len(e2.record.items.remove) = 1
    /\ e2.record.items.remove[1].key = LastUpdate(e1).key
    /\ e2.record.items.remove[1].nested_key = LastUpdate(e1).nested_key

\* C16: summary consolidation algebra.  Handling the same summary update
\* (same key path, same value) a second time leaves the consolidated
\* summary as it was after the first; handling an update of a key path and
\* then a remove of the same key path leaves that key path absent and every
\* key path that is neither above nor below it with its value.
C16_SummaryAlgebra ==
    \A i \in 1..(Len(plog.routed) - 1) :
        LET e1 == plog.routed[i]
            e2 == plog.routed[i + 1]
            s1 == e1.after.consolidated_summary
            s2 == e2.after.consolidated_summary
        IN EndsWithUpdate(e1) =>
             /\ SameUpdateAgain(e1, e2) => e2.exc = NoExc /\ s2 = s1
             /\ RemoveOfSamePath(e1, e2) =>
                  /\ e2.exc = NoExc
                  /\ Lookup(s2, PathOf(LastUpdate(e1))) = Missing
                  /\ \A q \in KeyPaths :
                        ~Related(PathOf(LastUpdate(e1)), q)
                            => Lookup(s2, q) = Lookup(s1, q)

\* a.x was written below the dict a = {y: 2} and then removed: a.x is
\* absent and a.y is still 2
C16_Witness ==
    /\ Len(plog.routed) = 2
    /\ EndsWithUpdate(plog.routed[1])
    /\ PathOf(LastUpdate(plog.routed[1])) = <<"a", "x">>
    /\ Lookup(plog.routed[1].after.consolidated_summary, <<"a", "x">>)
         = Num(1)
    /\ RemoveOfSamePath(plog.routed[1], plog.routed[2])
    /\ plog.routed[2].exc = NoExc
    /\ hm.consolidated_summary = [a |-> Dict([y |-> Num(2)])]

\* the same update of a.x was handled twice
C16_WitnessTwice ==
    /\ Len(plog.routed) = 2
    /\ EndsWithUpdate(plog.routed[1])
    /\ PathOf(LastUpdate(plog.routed[1])) = <<"a">>
    /\ SameUpdateAgain(plog.routed[1], plog.routed[2])
    /\ hm.consolidated_summary = [b |-> Num(3), a |-> Num(1)]


\* the items of a summary record in the order handle_summary takes them
ItemsOf(record) == record.items.update \o record.items.remove

\* the item sets a flat key and a nested key path
BothSet(item) == Len(item.nested_key) > 0 /\ item.key # ""

\* the nested key path of the item passes through a node the summary
\* does not have
MissingIntermediate(summary, item) ==
    /\ item.key = ""
    /\ \E n \in 1..(Len(item.nested_key) - 1) :
          Lookup(summary, SubSeq(item.nested_key, 1, n)) = Missing

\* the handler raised exc and left the consolidated summary and both
\* queues as they were
FailedUnapplied(e, exc) ==
    /\ e.exc = exc
    /\ e.after.consolidated_summary = e.before.consolidated_summary
    /\ e.sent = <<>>
    /\ e.written = <<>>

\* C17: summary key errors.  A summary record whose first item, an update
\* or a remove, sets both a non-empty flat key and a nested key path fails
\* with an assertion; one whose first item has a nested key path through a
\* node the consolidated summary does not have fails with a KeyError.  In
\* both cases the consolidated summary is left as it was: the item is not
\* applied and no intermediate node is created.
C17_SummaryKeyErrors ==
    \A i \in 1..Len(plog.routed) :
        LET e == plog.routed[i]
        IN (e.record.kind = "summary" /\ ItemsOf(e.record) # <<>>) =>
             LET item == ItemsOf(e.record)[1]
             IN /\ BothSet(item)
                     => FailedUnapplied(e, "AssertionError: item.key")
                /\ MissingIntermediate(e.before.consolidated_summary, item)
                     => FailedUnapplied(e, "KeyError")

\* the summary has the dict a, and an update of a.x that also sets the
\* flat key a failed with the assertion
C17_Witness ==
    /\ Len(plog.routed) = 2
    /\ plog.routed[2].record.kind = "summary"
    /\ IsDictValue(Lookup(plog.routed[2].before.consolidated_summary, <<"a">>))
    /\ plog.routed[2].record.items.update # <<>>
    /\ BothSet(plog.routed[2].record.items.update[1])
    /\ plog.routed[2].exc = "AssertionError: item.key"
    /\ "x" \notin DOMAIN hm.consolidated_summary["a"].d

\* an update, and a remove, of m.x failed while the summary had no m
C17_WitnessMissing ==
    /\ Len(plog.routed) = 1
    /\ plog.routed[1].record.kind = "summary"
    /\ plog.routed[1].record.items.update # <<>>
    /\ MissingIntermediate(NoDict, plog.routed[1].record.items.update[1])
    /\ plog.routed[1].exc = "KeyError"
    /\ hm.consolidated_summary = NoDict

C17_WitnessMissingRemove ==
    /\ Len(plog.routed) = 2
    /\ plog.routed[2].record.kind = "summary"
    /\ plog.routed[2].record.items.remove # <<>>
    /\ MissingIntermediate(plog.routed[2].before.consolidated_summary,
                           plog.routed[2].record.items.remove[1])
    /\ plog.routed[2].exc = "KeyError"
    /\ "m" \notin DOMAIN hm.consolidated_summary


(***************************************************************************)
(* Properties of resuming a run.                                           *)
(***************************************************************************)
\* the sender step took a run record while it had no run: wandb.init
IsInitStep(e) == e.record.kind = "run" /\ e.before.run = "none"

EvNames(evs) == {evs[i].e : i \in 1..Len(evs)}

\* the error the step reported: in the result, if a reply was requested
ReportedErrors(e) == {e.res[i].error : i \in 1..Len(e.res)} \ {NoExc}

\* the step ended with the error: no run was set up, and the result, if
\* one was requested, carries the error
EndedWithError(e, error) ==
    /\ e.after.run = "none"
    /\ Raised \notin EvNames(e.ev)
    /\ e.record.req_resp => ReportedErrors(e) = {error}

\* the step ended without error and set up the run
EndedWithRun(e) ==
    /\ e.after.run = "set"
    /\ Raised \notin EvNames(e.ev)
    /\ ReportedErrors(e) = {}

ResumeChecked(e) ==
    /\ (settings.resume = "must" /\ ~backend.exists)
          => EndedWithError(e, "resume='must' but run doesn't exist")
    /\ (settings.resume = "never" /\ backend.exists)
          => EndedWithError(e, "resume='never' but run exists")
    /\ settings.resume \in {"allow", "auto"}
          => /\ EndedWithRun(e)
             /\ backend.exists => /\ e.after.resume_state.resumed
                                  /\ e.after.run_info.resumed
             /\ ~backend.exists => ~e.after.run_info.resumed
    /\ settings.resume = "none"
          => /\ "api.run_resume_status" \notin EvNames(e.ev)
             /\ EndedWithRun(e)

\* C18: resume conflict detection on the first run record.  With resume
\* 'must' and no prior run on the backend the sender produces the error
\* "resume='must' but run ... doesn't exist"; with 'never' and a prior run
\* it produces "resume='never' but run ... exists"; with 'allow' or 'auto'
\* it produces no error in either case and, when a prior run exists,
\* records its state with resumed = true; with resume unset the backend is
\* not queried.
C18_ResumeConflicts ==
    \A i \in 1..Len(plog.sends) :
        IsInitStep(plog.sends[i]) => ResumeChecked(plog.sends[i])

\* the last row of the prior run's history tail, if any, is valid JSON
HistoryTailParses ==
    Len(backend.historyTail) > 0
        => backend.historyTail[Len(backend.historyTail)].ok

\* the same when the last history row of the prior run parses
C18_ResumeConflictsParsed ==
    HistoryTailParses =>
        \A i \in 1..Len(plog.sends) :
            IsInitStep(plog.sends[i]) => ResumeChecked(plog.sends[i])

\* resume 'allow', a prior run whose last history row is not valid JSON:
\* an AttributeError left send_run and the sender thread ended
C18_SenderRaised ==
    /\ settings.resume = "allow"
    /\ backend.exists
    /\ ~HistoryTailParses
    /\ plog.sstopped
    /\ sm.run = "none"


\* the last row of the prior run's events tail, if any, is valid JSON
EventsTailParses ==
    Len(backend.eventsTail) > 0
        => backend.eventsTail[Len(backend.eventsTail)].ok

\* the resume mode and the backend's answer conflict: 'must' without a
\* prior run, or with one whose tails cannot be parsed; 'never' with a
\* prior run
ResumeConflict ==
    \/ settings.resume = "must" /\ ~backend.exists
    \/ settings.resume = "must" /\ backend.exists
         /\ ~(HistoryTailParses /\ EventsTailParses)
    \/ settings.resume = "never" /\ backend.exists

StartEvents ==
    {"api.upsert_run", "fs.start", "pusher.start", "dir_watcher.start"}

\* C19: a resume conflict is returned, not raised, and starts nothing.
\* When a run record reaches a sender without a run and hits a resume
\* conflict, the sender puts exactly one result, with the record's uuid and
\* the error, on result_q if a reply was requested and none otherwise; it
\* does not upsert the run, starts no file stream, upload pipeline or
\* directory watcher, leaves its run unset, and no exception ends the
\* sender thread.
C19_ConflictReturned ==
    ResumeConflict =>
        /\ ~plog.sstopped
        /\ \A i \in 1..Len(plog.sends) :
              LET e == plog.sends[i]
              IN /\ IsInitStep(e)
                 /\ Len(e.res) = IF e.record.req_resp THEN 1 ELSE 0
                 /\ \A j \in 1..Len(e.res) :
                       /\ e.res[j].kind = "run"
                       /\ e.res[j].uuid = e.record.uuid
                       /\ e.res[j].error # NoExc
                 /\ EvNames(e.ev) \cap StartEvents = {}
                 /\ Raised \notin EvNames(e.ev)
                 /\ e.after.run = "none"
                 /\ e.after.fs = "none"
                 /\ e.after.pusher = "none"
                 /\ e.after.dir_watcher = "none"

\* resume 'never' and a prior run: the run record was answered with the
\* error, and the sender went on to take the history row and the summary
\* record that followed it
C19_Witness ==
    /\ settings.resume = "never"
    /\ backend.exists
    /\ Len(plog.sends) = 1
    /\ plog.sends[1].record.req_resp
    /\ Len(result_q) = 1
    /\ result_q[1].uuid = 1
    /\ result_q[1].error = "resume='never' but run exists"
    /\ Len(plog.sentlog) = 3
    /\ plog.sentlog[2].kind = "history"
    /\ sender_q = <<>>
    /\ sm.run = "none"
    /\ sm.fs = "none"


\* the step set up a resumed run
ResumedRun(e) == IsInitStep(e) /\ e.after.run = "set" /\ e.after.run_info.resumed

\* the starting step of the run the step holds and of every run it
\* returned to the producer
StartingSteps(e) ==
    {e.after.run_info.starting_step}
        \cup {e.res[j].run.starting_step : j \in 1..Len(e.res)}

\* C20: resumed starting step.  When a run is resumed and the last row of
\* the prior history has _step = n, the run held by the sender and returned
\* to the producer has starting_step = n + 1; when there is no prior
\* history row it has starting_step = 0; and the file stream is started
\* with the history file at the prior history line count.
C20_ResumedStartingStep ==
    \A i \in 1..Len(plog.sends) :
        LET e == plog.sends[i]
            ht == backend.historyTail
        IN ResumedRun(e) =>
             /\ (Len(ht) > 0 /\ ht[Len(ht)].ok
                    /\ "_step" \in DOMAIN ht[Len(ht)].d)
                   => StartingSteps(e) = {ht[Len(ht)].d["_step"].v + 1}
             /\ Len(ht) = 0 => StartingSteps(e) = {0}
             /\ \E j \in 1..Len(e.ev) :
                   e.ev[j] = Ev("fs.start", backend.historyLineCount)
             /\ e.record.req_resp => Len(e.res) = 1

\* resume 'allow', a prior run of 15 history rows whose last row has
\* _step 15: the run returned has starting_step 16 and the history file
\* stream starts at line 15
C20_Witness ==
    /\ settings.resume = "allow"
    /\ backend.historyLineCount = 15
    /\ Len(result_q) = 1
    /\ result_q[1].error = NoExc
    /\ result_q[1].run.resumed
    /\ result_q[1].run.starting_step = 16
    /\ \E j \in 1..Len(plog.ev) : plog.ev[j] = Ev("fs.start", 15)
    /\ sm.run_info.starting_step = 16

\* a prior run without history rows was resumed at step 0
C20_WitnessNoHistory ==
    /\ backend.exists
    /\ backend.historyTail = <<>>
    /\ Len(result_q) = 1
    /\ result_q[1].run.resumed
    /\ result_q[1].run.starting_step = 0


\* the configs the step passed to api.upsert_run, and the config of the
\* last config file it saved
UpsertedConfigs(e) ==
    {e.ev[j].config : j \in {i \in 1..Len(e.ev) : e.ev[i].e = "api.upsert_run"}}

SavedConfig(e) ==
    LET saves == SelectSeq(e.ev, LAMBDA x : x.e = "save_config_file")
    IN saves[Len(saves)].config

\* merged is prior overlaid with given: keys of given take given's value,
\* keys of prior alone keep prior's value, and there are no other keys
Overlaid(merged, prior, given) ==
    /\ DOMAIN merged = DOMAIN prior \cup DOMAIN given
    /\ \A k \in DOMAIN given : merged[k] = given[k]
    /\ \A k \in DOMAIN prior \ DOMAIN given : merged[k] = prior[k]

\* the config the sender resumed: the prior run's config, or the empty
\* config when the events tail could not be parsed
ResumedConfig == IF EventsTailParses THEN backend.config ELSE NoDict

C21_WitnessReinit ==
    /\ backend.config = [lr |-> Num(1), wd |-> Num(0)]
    /\ Len(plog.sends) = 2
    /\ ResumedRun(plog.sends[1])
    /\ plog.sends[1].record.items = [lr |-> Num(2), bs |-> Num(8)]
    /\ plog.sends[2].record.items = NoDict
    /\ sm.run_info.config = [lr |-> Num(2), wd |-> Num(0), bs |-> Num(8)]


CountEv(evs, name) == Cardinality({i \in 1..Len(evs) : evs[i].e = name})

ThreadStarts == {"fs.start", "pusher.start", "dir_watcher.start"}

\* the step answered the run record with one result without error, if a
\* reply was requested, and with none otherwise
RepliedRun(e) ==
    /\ Len(e.res) = IF e.record.req_resp THEN 1 ELSE 0
    /\ \A j \in 1..Len(e.res) :
          /\ e.res[j].kind = "run"
          /\ e.res[j].uuid = e.record.uuid
          /\ e.res[j].error = NoExc

\* the step only upserted the run (and saved its config file) and replied
OnlyUpserts(e) ==
    /\ EvNames(e.ev) = {"save_config_file", "api.upsert_run"}
    /\ CountEv(e.ev, "api.upsert_run") = 1
    /\ RepliedRun(e)

\* the file stream, the upload pipeline and the directory watcher are
\* started at most once, in the step of the first run record that succeeds,
\* and every run record after it only upserts and replies
StartedOnce ==
    /\ \A n \in ThreadStarts : CountEv(plog.ev, n) <= 1
    /\ \A i \in 1..Len(plog.sends) :
          LET e == plog.sends[i]
          IN /\ EvNames(e.ev) \cap ThreadStarts # {}
                  => /\ ThreadStarts \subseteq EvNames(e.ev)
                     /\ e.before.run = "none"
                     /\ e.after.run = "set"
                     /\ \A j \in 1..(i - 1) : plog.sends[j].after.run = "none"
             /\ e.before.run = "set" => OnlyUpserts(e)
             /\ (e.before.run = "none" /\ e.after.run = "set")
                  => ThreadStarts \subseteq EvNames(e.ev)

\* C22 as stated: run re-initialisation.  Across the run records handled by
\* one sender, the resume-status lookup and the start of the file stream,
\* upload pipeline and directory watcher happen only for the first run
\* record that succeeds, at most once in total; every later run record
\* only upserts run metadata and replies.
C22_ReinitOnce ==
    /\ StartedOnce
    /\ CountEv(plog.ev, "api.run_resume_status") <= 1
    /\ \A i \in 1..Len(plog.sends) :
          "api.run_resume_status" \in EvNames(plog.sends[i].ev)
              => plog.sends[i].before.run = "none"

\* C22 amended: the threads are started only for the first run record that
\* succeeds, at most once, and every run record after it only upserts and
\* replies; the resume status is looked up for every run record taken
\* while the sender has no run, the failed ones included, and never after.
C22_ReinitStartsOnce ==
    /\ StartedOnce
    /\ \A i \in 1..Len(plog.sends) :
          LET e == plog.sends[i]
          IN CountEv(e.ev, "api.run_resume_status")
               = IF e.before.run = "none" /\ settings.resume # "none"
                 THEN 1 ELSE 0

\* a resumed run was set up by the first run record, and a second run
\* record was only upserted and answered
C22_Witness ==
    /\ settings.resume = "allow"
    /\ backend.exists
    /\ Len(plog.sends) = 2
    /\ plog.sends[1].after.run = "set"
    /\ OnlyUpserts(plog.sends[2])
    /\ plog.sends[2].record.req_resp
    /\ CountEv(plog.ev, "fs.start") = 1
    /\ CountEv(plog.ev, "api.upsert_run") = 2
    /\ CountEv(plog.ev, "api.run_resume_status") = 1

\* two run records hit the same resume conflict: the resume status was
\* looked up twice and no run record succeeded
C22_LookedUpTwice ==
    /\ settings.resume = "must"
    /\ ~backend.exists
    /\ Len(plog.sends) = 2
    /\ CountEv(plog.ev, "api.run_resume_status") = 2
    /\ sm.run = "none"


(***************************************************************************)
(* Properties of console output.                                           *)
(***************************************************************************)
\* the sender step took an output record while the file stream was active
IsOutputStep(e) == e.record.kind = "output" /\ e.before.fs # "none"

StreamOf(record) ==
    IF record.items.output_type = "STDERR" THEN "stderr" ELSE "stdout"

\* the text of the stream's records, in arrival order, among the first n
\* sender steps, since the last of them that ended in a newline
RECURSIVE Pending(_, _)
Pending(n, stream) ==
    IF n = 0 THEN <<>>
    ELSE LET e == plog.sends[n]
         IN IF ~IsOutputStep(e) THEN Pending(n - 1, stream)
            ELSE IF StreamOf(e.record) # stream THEN Pending(n - 1, stream)
            ELSE IF EndsWithNewline(e.record.items.line) THEN <<>>
            ELSE Pending(n - 1, stream) \o e.record.items.line

\* the buffer the sender holds for a stream
Buffer(s, stream) ==
    IF stream \in DOMAIN s.partial_output THEN s.partial_output[stream]
    ELSE <<>>

\* C23: output line buffering.  While the file stream is active, an output
\* record whose line does not end in a newline pushes nothing and is
\* appended to the buffer of its own stream; a newline-terminated record
\* makes exactly one push, of the stream prefix ("ERROR " for stderr), a
\* timestamp, the buffered text of the same stream in arrival order and the
\* line, and empties that stream's buffer; the buffer of the other stream
\* is left as it was.
C23_OutputBuffering ==
    /\ \A st \in {"stdout", "stderr"} :
          Buffer(sm, st) = Pending(Len(plog.sends), st)
    /\ \A i \in 1..Len(plog.sends) :
          LET e == plog.sends[i]
              line == e.record.items.line
              st == StreamOf(e.record)
              other == IF st = "stdout" THEN "stderr" ELSE "stdout"
          IN IsOutputStep(e) =>
               /\ Buffer(e.after, other) = Buffer(e.before, other)
               /\ Buffer(e.before, st) = Pending(i - 1, st)
               /\ IF EndsWithNewline(line)
                  THEN /\ e.ev = <<PushOutputEv(
                                     (IF st = "stderr" THEN <<"ERROR ">>
                                      ELSE <<>>)
                                     \o <<TS>> \o Pending(i - 1, st) \o line)>>
                       /\ Buffer(e.after, st) = <<>>
                  ELSE /\ e.ev = <<>>
                       /\ Buffer(e.after, st) = Pending(i - 1, st) \o line

\* "a" was written to stderr, then "a" to stdout, then "b\n" to stderr:
\* one line "ERROR <timestamp> ab\n" was pushed and stdout still holds "a"
C23_Witness ==
    /\ Len(plog.sends) = 4
    /\ IsOutputStep(plog.sends[4])
    /\ plog.sends[4].ev = <<PushOutputEv(<<"ERROR ", TS, "a", "b", NL>>)>>
    /\ Buffer(sm, "stdout") = <<"a">>
    /\ Buffer(sm, "stderr") = <<>>
    /\ CountEv(plog.ev, "fs.push:output") = 1


(***************************************************************************)
(* Stop-check (SendManager.send_request_status).                           *)
(***************************************************************************)
IsStatusStep(e) == e.record.kind = "status"

\* the step called api.check_stop_requested
StopChecked(e) == "api.check_stop_requested" \in EvNames(e.ev)

\* the results on result_q that answer the status request of that uuid
StatusReplies(uuid) ==
    { i \in 1..Len(result_q) :
        result_q[i].kind = "status" /\ result_q[i].uuid = uuid }

C24_WitnessNoRun ==
    \E i \in 1..Len(plog.sends) :
        LET e == plog.sends[i]
        IN /\ IsStatusStep(e) /\ e.record.items.check_stop_req
           /\ ~StopChecked(e) /\ e.before.run = "none"
           /\ e.res = <<StatusResult(e.record.uuid, FALSE)>>


(***************************************************************************)
(* Extents of the appends.                                                 *)
(***************************************************************************)
\* the append is the first one of its session
FirstOfSession(i) == i = 1 \/ wlog[i - 1].session # wlog[i].session

WriteRefused == ds.mode = "new" /\ ds'.exc = "IOError: File exists"

\* the step is an open_for_write that returned
WriteOpened == ds.mode = "new" /\ ds'.mode = "write"

\* C26: write mode refuses an existing file.  open_for_write returns only
\* on a path that does not exist: the file then holds exactly the 7-byte
\* header and the write index is 7.  On a path that exists it raises an
\* I/O error, and neither the file nor the instance's index changes.
C26_WriteRefusesExisting ==
    [][ /\ WriteOpened =>
             /\ ~file.exists
             /\ file' = [exists |-> TRUE, data |-> HeaderBytes]
             /\ Len(HeaderBytes) = 7
             /\ ds'.index = 7
        /\ WriteRefused =>
             /\ file.exists
             /\ file' = file
             /\ ds'.mode = "error"
             /\ ds'.index = ds.index
        /\ (ds.mode = "new" /\ file.exists) => ds'.mode # "write"
      ]_vars

\* open_for_write was refused on a log that holds a record
C26_Witness ==
    /\ ds.mode = "error"
    /\ ds.exc = "IOError: File exists"
    /\ file.exists
    /\ Len(wlog) >= 1
    /\ wlog[1].exc = NoExc
    /\ Len(file.data) = wlog[Len(wlog)].size1
    /\ SubSeq(file.data, 1, 7) = HeaderBytes

\* the fields of the first 7 bytes of the file: identifier, magic, version
HeaderIdent == SubSeq(file.data, 1, 4)
HeaderMagic == file.data[5] + 256 * file.data[6]
HeaderVersion == file.data[7]

GoodHeader ==
    /\ Len(file.data) >= 7
    /\ HeaderIdent = <<58, 87, 38, 66>>
    /\ HeaderMagic = 11 * 4096 + 14 * 256 + 14 * 16 + 1
    /\ HeaderVersion = 0

\* open_for_scan has been called on the file
ScanOpened == ds.opened_for_scan /\ ds.mode \in {"scan", "error"}

\* C27: header validation on scan.  open_for_scan returns only when the
\* first 7 bytes of the file are the identifier ":W&B", the magic 0xBEE1
\* and version 0; on a file of 7 bytes or more whose identifier, magic or
\* version differs it raises "Invalid header", and no record is scanned.
C27_HeaderValidated ==
    ScanOpened =>
        /\ ds.mode = "scan" <=> GoodHeader
        /\ (Len(file.data) >= 7 /\ ~GoodHeader) =>
              /\ ds.exc = "Exception: Invalid header"
              /\ rlog = <<>>
              /\ ds.index = 0
        /\ ds.mode = "scan" => ds.exc = NoExc

\* a file whose header has version 1, followed by a valid chunk, rejected
C27_Witness ==
    /\ ScanOpened
    /\ Len(file.data) > 7
    /\ HeaderIdent = LEVELDBLOG_HEADER_IDENT
    /\ HeaderMagic = LEVELDBLOG_HEADER_MAGIC
    /\ HeaderVersion = 1
    /\ ds.exc = "Exception: Invalid header"
    /\ rlog = <<>>

\* a file with the header of a log and a valid chunk, opened and scanned
C27_WitnessAccepted ==
    /\ ds.mode = "scan"
    /\ env.sessions = <<"foreign">>
    /\ GoodHeader
    /\ Len(rlog) = 1
    /\ rlog[1].kind = "data"
    /\ rlog[1].data = Pat(3)


(***************************************************************************)
(* The upload pipeline.                                                    *)
(***************************************************************************)
\* the upload thread has ended (and the sender may have joined it)
PusherEnded == Len(sm.files) > 0 /\ sm.pusher \in {"dead", "none"}

\* file i is scheduled and not settled yet
Queued(i) == i <= Len(sm.files) /\ sm.files[i].status = "queued"

\* C28: upload retry isolation.  A file is attempted at most
\* MaxUploadAttempts times and is marked failed exactly when that many
\* attempts failed; the upload thread ends only when every file has
\* completed or permanently failed; every queued file is settled in the
\* end, whatever happens to the other files; and once finish() is called
\* the upload thread ends.
C28_UploadRetryIsolation ==
    /\ [](\A i \in 1..Len(sm.files) :
            LET f == sm.files[i]
            IN /\ f.attempts <= MaxUploadAttempts
               /\ f.status = "failed" <=> f.attempts = MaxUploadAttempts)
    /\ [](PusherEnded => Settled(sm.files))
    /\ \A i \in 1..MaxFiles : Queued(i) ~> ~Queued(i)
    /\ (sm.pusher = "finishing") ~> (sm.pusher \in {"dead", "none"})

\* the first file failed for good, the second one was uploaded after it
\* had failed once, and the upload thread has ended
C28_Witness ==
    /\ Len(sm.files) = 2
    /\ sm.files[1] = UploadTask("failed", MaxUploadAttempts)
    /\ sm.files[2] = UploadTask("done", 1)
    /\ sm.pusher = "dead"


(***************************************************************************)
(* Chunks and blocks.                                                      *)
(***************************************************************************)
\* the block that holds the byte at that offset of the file
BlockOf(at) == at \div LEVELDBLOG_BLOCK_LEN

\* the offset after the last byte of the chunk
ChunkEnd(ch) == ch.at + LEVELDBLOG_HEADER_LEN + ch.dlength

\* C29: no chunk crosses a block boundary.  After any sequence of appends
\* every chunk written, its 7-byte header and its payload, lies inside one
\* block; the payload of a chunk is at most LEVELDBLOG_BLOCK_LEN - 7 bytes;
\* every FIRST and MIDDLE chunk ends on a block boundary; and no call of
\* _write_record made by _write_data fails its assertion.
C29_ChunksInsideBlocks ==
    \A i \in 1..Len(wlog) :
        LET e == wlog[i]
        IN /\ e.exc = NoExc
           /\ Len(e.chunks) >= 1
           /\ \A c \in 1..Len(e.chunks) :
                 LET ch == e.chunks[c]
                 IN /\ BlockOf(ch.at) = BlockOf(ChunkEnd(ch) - 1)
                    /\ ch.dlength <= LEVELDBLOG_BLOCK_LEN - 7
                    /\ ch.dtype \in {LEVELDBLOG_FIRST, LEVELDBLOG_MIDDLE} =>
                          ChunkEnd(ch) % LEVELDBLOG_BLOCK_LEN = 0
                    /\ ch.at = e.size0 + e.pad
                          + (IF c = 1 THEN 0
                             ELSE ChunkEnd(e.chunks[c - 1]) - e.chunks[1].at)

\* an append that starts in the middle of a block and writes a FIRST, a
\* MIDDLE and a LAST chunk
C29_Witness ==
    /\ Len(wlog) = 2
    /\ wlog[2].start % LEVELDBLOG_BLOCK_LEN > LEVELDBLOG_HEADER_LEN
    /\ ChunkDtypes(wlog[2].chunks)
         = <<LEVELDBLOG_FIRST, LEVELDBLOG_MIDDLE, LEVELDBLOG_LAST>>
    /\ wlog[2].chunks[2].dlength = LEVELDBLOG_DATA_LEN
    /\ wlog[2].exc = NoExc


(***************************************************************************)
(* Padding.                                                                *)
(***************************************************************************)
\* bytes left in the block when the scan call starts
ScanRoom(r) == LEVELDBLOG_BLOCK_LEN - (r.at % LEVELDBLOG_BLOCK_LEN)

\* the bytes the scan call skipped before the chunks of the record it
\* returned
Skipped(r) ==
    (r.to - r.from) - (LEVELDBLOG_HEADER_LEN * Len(r.types) + Len(r.data))

PadError(r) == r.kind = "raise" /\ r.exc = "AssertionError: pad"

\* C30: padding rule.  An append that starts with R < 7 bytes left in the
\* block writes R zero bytes and its first chunk header starts on a block
\* boundary; an append that starts with 7 or more bytes left writes no
\* padding.  A scan call that starts with 7 or more bytes left skips
\* nothing; one that starts with R < 7 bytes left skips R bytes if these
\* are R zero bytes, and fails otherwise.
C30_PaddingRule ==
    /\ \A i \in 1..Len(wlog) :
          LET e == wlog[i]
              R == BlockRoom(e)
          IN IF R < LEVELDBLOG_HEADER_LEN
             THEN /\ e.pad = R
                  /\ e.chunks[1].at = e.start + R
                  /\ e.chunks[1].at % LEVELDBLOG_BLOCK_LEN = 0
                  /\ env.corrupt = NoCorrupt =>
                        SubSeq(file.data, e.size0 + 1, e.size0 + R) = Zeros(R)
             ELSE /\ e.pad = 0
                  /\ e.chunks[1].at = e.start
    /\ ds.mode = "scan" =>
          \A i \in 1..Len(rlog) :
              LET r == rlog[i]
                  R == ScanRoom(r)
                  pad == SubSeq(file.data, r.from + 1,
                                Min(r.from + R, Len(file.data)))
              IN IF R < LEVELDBLOG_HEADER_LEN
                 THEN /\ PadError(r) <=> pad # Zeros(R)
                      /\ r.kind = "data" => Skipped(r) = R
                      /\ (\E j \in 1..Len(pad) : pad[j] # 0) =>
                            /\ PadError(r)
                            /\ i = Len(rlog)
                 ELSE /\ ~PadError(r)
                      /\ r.kind = "data" => Skipped(r) = 0

\* the second record was written after 6 bytes of padding, one bit of the
\* padding was flipped, and the second scan call failed on it
C30_Witness ==
    /\ ds.mode = "scan"
    /\ Len(wlog) = 2
    /\ wlog[2].pad = 6
    /\ env.corrupt.kind = "pad"
    /\ Len(rlog) = 2
    /\ rlog[1].kind = "data"
    /\ PadError(rlog[2])

\* the padding was left alone and the scan skipped it
C30_WitnessSkipped ==
    /\ ds.mode = "scan"
    /\ env.corrupt = NoCorrupt
    /\ Len(rlog) = 2
    /\ ScanRoom(rlog[2]) < LEVELDBLOG_HEADER_LEN
    /\ rlog[2].kind = "data"
    /\ Skipped(rlog[2]) = wlog[2].pad
    /\ wlog[2].pad > 0


(***************************************************************************)
(* The router's part in the defer sequence.                                *)
(***************************************************************************)
\* the puts of the step on sender_q that are the record itself
Forwards(e) == SelectSeq(e.sent, LAMBDA r : r = e.record)

\* the HandleManager fields but for those named
SameBut(e, fields) ==
    \A f \in DOMAIN e.before \ fields : e.after[f] = e.before[f]

\* C31: the router's part in the defer sequence.  For every defer request,
\* online and offline, the router shuts down the stats sampler at
\* FLUSH_STATS if there is one, finishes and drops the tensorboard watcher
\* at FLUSH_TB if there is one, dispatches a summary record of the
\* consolidated summary at FLUSH_SUM, does nothing in the other states,
\* and then puts the request itself, unchanged, on sender_q exactly once,
\* as the last put of the step.
C31_RouterDefer ==
    \A i \in 1..Len(plog.routed) :
        LET e == plog.routed[i]
            r == e.record
            summary == SummaryOf(e.before)
        IN r.kind = "defer" =>
             /\ e.exc = NoExc
             /\ Len(Forwards(e)) = 1
             /\ e.sent[Len(e.sent)] = r
             /\ IF r.state = FLUSH_STATS
                THEN /\ SameBut(e, {"system_stats"})
                     /\ e.after.system_stats
                          = IF e.before.system_stats = "running"
                            THEN "shutdown" ELSE e.before.system_stats
                     /\ e.sent = <<r>>
                ELSE IF r.state = FLUSH_TB
                THEN /\ SameBut(e, {"tb_watcher"})
                     /\ e.after.tb_watcher = "none"
                     /\ e.sent = <<r>>
                ELSE IF r.state = FLUSH_SUM
                THEN /\ e.after = e.before
                     /\ e.sent = IF settings.offline THEN <<r>>
                                 ELSE <<summary, r>>
                     /\ e.written = <<summary>> \o (IF r.local THEN <<>>
                                                     ELSE <<r>>)
                ELSE /\ e.after = e.before
                     /\ e.sent = <<r>>
             /\ r.state # FLUSH_SUM =>
                   e.written = IF r.local THEN <<>> ELSE <<r>>

\* an offline run with a stats sampler and a tensorboard watcher: the
\* router has shut down the one and finished the other, flushed a
\* summary with a history row in it, and forwarded the defer requests up
\* to END
C31_Witness ==
    /\ settings.offline
    /\ hm.system_stats = "shutdown"
    /\ hm.tb_watcher = "none"
    /\ hm.consolidated_summary # NoDict
    /\ \E i \in 1..Len(plog.routed) :
          /\ plog.routed[i].record.kind = "defer"
          /\ plog.routed[i].record.state = FLUSH_TB
          /\ plog.routed[i].before.tb_watcher = "active"
    /\ \E i \in 1..Len(plog.routed) :
          /\ plog.routed[i].record.kind = "defer"
          /\ plog.routed[i].record.state = END
          /\ plog.routed[i].sent = <<plog.routed[i].record>>


(***************************************************************************)
(* The sender's shutdown actions.                                          *)
(***************************************************************************)
\* the sender's side effects that end its collaborators, in order
ShutdownEvents ==
    SelectSeq(plog.ev, LAMBDA e : e.e \in {"dir_watcher.finish",
                                            "pusher.finish", "fs.finish"})

\* the records of that kind the sender has published, routed or not yet
PublishedBySender(kind) ==
    SelectSeq([i \in 1..Len(plog.routed) |-> plog.routed[i].record]
                \o record_q,
              LAMBDA r : r.origin = "sender" /\ r.kind = kind)

\* the exit results delivered on result_q
ExitResults == SelectSeq(result_q, LAMBDA r : r.kind = "exit")

\* the steps of the shutdown that have been made
DirFinished == "dir_watcher.finish" \in EvNames(plog.ev)
FpFinished == "pusher.finish" \in EvNames(plog.ev)
FsFinished == "fs.finish" \in EvNames(plog.ev)
MarkersPublished == PublishedBySender("final") # <<>>
ExitDone == sm.exit_result \/ ExitResults # <<>>

\* the sender started the collaborators of an online run
Started == "fs.start" \in EvNames(plog.ev)

\* C32: order of the sender's shutdown actions.  In a run with one exit the
\* directory watcher is finished, then the upload pipeline is told to
\* finish, then the file stream is finished with the exit code of the exit
\* record, then the final and the footer marker are published, then the
\* exit result is set or delivered; each of these happens at most once.
C32_ShutdownOrder ==
    /\ IsPrefix(ShutdownEvents,
                <<Ev("dir_watcher.finish", 0), Ev("pusher.finish", 0),
                  Ev("fs.finish", IF plog.exitlog = <<>> THEN 0
                                  ELSE plog.exitlog[1].exit_code)>>)
    /\ FpFinished => DirFinished
    /\ FsFinished => FpFinished
    /\ MarkersPublished =>
          /\ Started => FsFinished
          /\ sm.fs = "none" /\ sm.dir_watcher = "none"
          /\ FLUSH_FINAL \in {plog.handled[j] : j \in 1..Len(plog.handled)}
    /\ Len(PublishedBySender("final")) <= 1
    /\ Len(PublishedBySender("footer")) = Len(PublishedBySender("final"))
    /\ ExitDone =>
          /\ MarkersPublished
          /\ \A k \in {"final", "footer"} :
                \E i \in 1..Len(plog.routed) : plog.routed[i].record.kind = k
    /\ Len(ExitResults) <= 1
    /\ ExitResults # <<>> =>
          /\ sm.exit_result
          /\ plog.exitlog[1].req_resp
          /\ ExitResults[1].uuid = plog.exitlog[1].uuid

\* an online run that ended with exit code 1: every shutdown action was
\* made and the exit result delivered
C32_Witness ==
    /\ ShutdownEvents = <<Ev("dir_watcher.finish", 0), Ev("pusher.finish", 0),
                          Ev("fs.finish", 1)>>
    /\ Len(PublishedBySender("footer")) = 1
    /\ Len(ExitResults) = 1


(***************************************************************************)
(* The exit record at the sender (SendManager.send_exit).                  *)
(***************************************************************************)
\* the sender thread takes an exit record in this step
ExitTaken ==
    /\ sender_q # <<>>
    /\ Head(sender_q).kind = "exit"
    /\ sender_q' = Tail(sender_q)

\* C33: on an exit record the sender stores the exit code of the record,
\* stores the uuid of the record as the pending reply id if and only if the
\* record asked for a reply (otherwise the pending reply id is left as it
\* was), puts nothing on the result queue in that step and publishes
\* exactly one record, a defer request in state BEGIN.
C33_ExitHandling ==
    [][ExitTaken =>
         LET record == Head(sender_q)
         IN /\ sm'.exit_code = record.exit_code
            /\ sm'.exit_sync_uuid = IF record.req_resp THEN record.uuid
                                    ELSE sm.exit_sync_uuid
            /\ (sm'.exit_sync_uuid = record.uuid) <=> record.req_resp
            /\ result_q' = result_q
            /\ Len(record_q') = Len(record_q) + 1
            /\ SubSeq(record_q', 1, Len(record_q)) = record_q
            /\ LET d == record_q'[Len(record_q')]
               IN d.kind = "defer" /\ d.origin = "sender" /\ d.state = BEGIN
            /\ ~plog'.sstopped]_vars

\* the sender took an exit record with exit code 1 that asked for a reply
C33_Witness ==
    /\ plog.published = <<BEGIN>>
    /\ plog.exitlog # <<>> /\ plog.exitlog[1].req_resp
    /\ sm.exit_code = 1
    /\ sm.exit_sync_uuid = plog.exitlog[1].uuid
    /\ result_q = <<>>

\* the sender took an exit record that asked for no reply
C33_WitnessNoReply ==
    /\ plog.published = <<BEGIN>>
    /\ plog.exitlog # <<>> /\ ~plog.exitlog[1].req_resp
    /\ sm.exit_code = plog.exitlog[1].exit_code
    /\ sm.exit_sync_uuid = 0


(***************************************************************************)
(* Stop commands of the agent (Agent._command_stop).                       *)
(***************************************************************************)
\* the agent processes a stop command in this step
StopTaken == agent'.last.type = "stop"

\* C34: stop escalation.  A stop command for a run id that has no process
\* changes nothing and sends nothing.  The first stop command addressed to
\* a process sends it terminate and records the time; a later stop command
\* to that process leaves the recorded time alone and sends either nothing
\* or kill, and kill only when more than kill_delay has elapsed since the
\* first terminate; so no stop command sends kill to a process that was not
\* sent terminate before.  A stop command sends nothing to another process.
C34_StopEscalation ==
    [][StopTaken =>
         LET c == agent'.last
             r == c.run_id
             proc == agent.a.run_processes[r]
             now == agent.a.now
         IN /\ c.pid = proc.pid
            /\ \A i \in 1..Len(c.sigs) :
                  c.sigs[i].pid = proc.pid /\ c.sigs[i].by = "stop"
            /\ agent'.signals = agent.signals \cup Range(c.sigs)
            /\ proc = NoProc =>
                  /\ c.sigs = <<>>
                  /\ agent'.a = agent.a
            /\ (proc # NoProc /\ agent.first[proc.pid] = NoTime) =>
                  /\ c.sigs = <<Signal(proc.pid, "terminate", "stop")>>
                  /\ agent'.a = [agent.a EXCEPT
                        !.run_processes[r].last_sigterm_time = At(now)]
            /\ (proc # NoProc /\ agent.first[proc.pid] # NoTime) =>
                  /\ proc.last_sigterm_time = agent.first[proc.pid]
                  /\ agent'.a = agent.a
                  /\ c.sigs \in {<<>>, <<Signal(proc.pid, "kill", "stop")>>}
                  /\ c.sigs # <<>> =>
                        /\ now > agent.first[proc.pid][1] + agent.a.kill_delay
                        /\ Signal(proc.pid, "terminate", "stop")
                              \in agent.signals]_vars

\* a later stop command has just sent kill, with a kill delay that is not 0
C34_Witness ==
    /\ agent.last.type = "stop"
    /\ agent.last.sigs = <<Signal(agent.last.pid, "kill", "stop")>>
    /\ agent.a.kill_delay > 0
    /\ agent.a.now > agent.first[agent.last.pid][1] + agent.a.kill_delay

\* a later stop command came before the kill delay had elapsed and sent
\* nothing
C34_WitnessEarly ==
    /\ agent.last.type = "stop" /\ agent.last.pid # 0
    /\ agent.last.sigs = <<>>
    /\ agent.a.now > agent.first[agent.last.pid][1]

\* a stop command for a run id without a process, after another run was
\* sent terminate
C34_WitnessUnknown ==
    /\ agent.last.type = "stop" /\ agent.last.pid = 0
    /\ \E s \in agent.signals : s.sig = "terminate" /\ s.by = "stop"


(***************************************************************************)
(* The final summary and the end of the file stream.                       *)
(***************************************************************************)
\* the positions of the defer request of that state on sender_q, over time
DeferSent(state) ==
    {k \in 1..Len(plog.sentlog) :
        plog.sentlog[k].kind = "defer" /\ plog.sentlog[k].state = state}

\* the summary records put on sender_q before position k
SummariesBefore(k) ==
    {j \in 1..(k - 1) : plog.sentlog[j].kind = "summary"}

\* the positions of the sender's effect of that name
EvAt(name) == {i \in 1..Len(plog.ev) : plog.ev[i].e = name}

\* the sender's effects of that name before position d
EvBefore(name, d) == {i \in EvAt(name) : i < d}

\* the two effects of send_summary on the run of an online sender
SummaryEffects ==
    {"fs.push:summary", "dir_watcher.update_policy:wandb-summary.json"}

\* C35: the final summary precedes the end of the file stream.  In an
\* online run the summary record the router flushes at FLUSH_SUM is on
\* sender_q just before the FLUSH_SUM defer request; every summary record
\* put on sender_q before the FLUSH_DIR request, the flushed one among
\* them, has been pushed to the file stream and registered with the
\* directory watcher before the directory watcher is finished, and so
\* before the file stream is finished.
C35_FinalSummaryFirst ==
    ~settings.offline =>
      /\ \A k \in DeferSent(FLUSH_SUM) :
            /\ k > 1
            /\ plog.sentlog[k - 1].kind = "summary"
            /\ plog.sentlog[k - 1].origin = "router"
            /\ \E i \in 1..Len(plog.routed) :
                  /\ plog.routed[i].record = plog.sentlog[k]
                  /\ plog.sentlog[k - 1] = SummaryOf(plog.routed[i].before)
      /\ \A d \in EvAt("dir_watcher.finish") :
            /\ DeferSent(FLUSH_SUM) # {} /\ DeferSent(FLUSH_DIR) # {}
            /\ \A k \in DeferSent(FLUSH_DIR), name \in SummaryEffects :
                  /\ Cardinality(EvBefore(name, d))
                        = Cardinality(SummariesBefore(k))
                  /\ Cardinality(EvBefore(name, d)) >= 1
            /\ \A f \in EvAt("fs.finish") : d < f

\* an online run with a logged history row has ended: the summary was
\* pushed twice, for the history row and for the flush, then the directory
\* watcher and the file stream were finished
C35_Witness ==
    /\ ~settings.offline
    /\ EvAt("fs.finish") # {}
    /\ Cardinality(EvAt("fs.push:summary")) = 2
    /\ hm.consolidated_summary # NoDict


(***************************************************************************)
(* Records for the file stream after the file stream has ended.            *)
(***************************************************************************)
StreamKinds == {"history", "summary", "stats", "output"}

\* the pushes to the file stream
IsPush(e) ==
    e.e \in {"fs.push:history", "fs.push:summary", "fs.push:events",
             "fs.push:output"}

\* the sender's effects of this step
NewEffects == SubSeq(plog'.ev, Len(plog.ev) + 1, Len(plog'.ev))

\* the sender thread takes a record for the file stream in this step,
\* after the file stream was finished
LateTaken ==
    /\ sender_q # <<>>
    /\ Head(sender_q).kind \in StreamKinds
    /\ sender_q' = Tail(sender_q)
    /\ EvAt("fs.finish") # {}

\* C36: no push after the end of the file stream.  Once the sender has
\* handled defer FLUSH_FS, or finish() was called, the file stream is
\* cleared; a history, summary, stats or output record the sender takes
\* after the file stream was finished is not pushed and raises nothing:
\* the sender stays as it is, publishes nothing and replies nothing; the
\* file stream is finished at most once and no push follows its finish.
C36_NoPushAfterFinish ==
    [][/\ (FLUSH_FS \in Range(plog.handled) \/ EvAt("finish") # {})
            => sm.fs = "none"
       /\ Cardinality(EvAt("fs.finish")) <= 1
       /\ \A f \in EvAt("fs.finish") :
             \A i \in (f + 1)..Len(plog.ev) : ~IsPush(plog.ev[i])
       /\ LateTaken =>
             /\ \A i \in 1..Len(NewEffects) : ~IsPush(NewEffects[i])
             /\ ~plog'.sstopped
             /\ sm' = sm
             /\ result_q' = result_q
             /\ record_q' = record_q]_vars

\* the file stream was finished at defer FLUSH_FS and finish() was called
\* later; a record of the producer for the file stream came to the sender
\* after the FLUSH_FS request and the sender has taken it
C36_Witness ==
    /\ FLUSH_FS \in Range(plog.handled)
    /\ EvAt("finish") # {}
    /\ \A f \in EvAt("fs.finish"), g \in EvAt("finish") : f < g
    /\ record_q = <<>> /\ sender_q = <<>>
    /\ END \in Range(plog.handled)
    /\ \E i \in 1..Len(plog.sentlog), k \in DeferSent(FLUSH_FS) :
          /\ plog.sentlog[i].kind \in StreamKinds
          /\ plog.sentlog[i].origin = "producer"
          /\ k < i


(***************************************************************************)
(* Where the consolidated summary goes.                                    *)
(***************************************************************************)
\* the summary records of the router among those records
RouterSummaries(records) ==
    SelectSeq(records, LAMBDA r : r.kind = "summary" /\ r.origin = "router")

\* the router has taken the FLUSH_SUM defer request
FlushSumRouted ==
    \E i \in 1..Len(plog.routed) :
        /\ plog.routed[i].record.kind = "defer"
        /\ plog.routed[i].record.state = FLUSH_SUM

\* C37: the summary record the router emits after a history or summary
\* record is never put on writer_q: it is put on sender_q, once, when the
\* run is online and the record was applied, and nowhere when the run is
\* offline.  The only summary record of the router on writer_q is the one
\* flushed at FLUSH_SUM, which goes to sender_q only when online.  So in
\* an offline run no summary record of the router is on either queue
\* before the router has taken FLUSH_SUM, and none ever on sender_q.
C37_SummaryDurability ==
    /\ \A i \in 1..Len(plog.routed) :
          LET e == plog.routed[i]
              r == e.record
              toSender == RouterSummaries(e.sent)
              toWriter == RouterSummaries(e.written)
          IN IF r.kind \in {"history", "summary"}
             THEN /\ toWriter = <<>>
                  /\ toSender = IF settings.offline \/ e.exc # NoExc THEN <<>>
                                ELSE <<SummaryOf(e.after)>>
             ELSE IF r.kind = "defer" /\ r.state = FLUSH_SUM
             THEN /\ toWriter = <<SummaryOf(e.before)>>
                  /\ toSender = IF settings.offline THEN <<>>
                                ELSE <<SummaryOf(e.before)>>
             ELSE toWriter = <<>> /\ toSender = <<>>
    /\ Len(RouterSummaries(writer_q)) = IF FlushSumRouted THEN 1 ELSE 0
    /\ settings.offline => RouterSummaries(plog.sentlog) = <<>>
    /\ (settings.offline /\ ~FlushSumRouted) =>
          RouterSummaries(plog.sentlog \o writer_q \o sender_q) = <<>>

\* an offline run: history was logged and the summary updated, and the
\* only summary record on the queues is the one flushed at FLUSH_SUM
C37_Witness ==
    /\ settings.offline
    /\ \E i, j \in 1..Len(plog.routed) :
          /\ plog.routed[i].record.kind = "history"
          /\ plog.routed[j].record.kind = "summary"
          /\ plog.routed[j].exc = NoExc
    /\ Len(RouterSummaries(writer_q)) = 1
    /\ hm.consolidated_summary # NoDict

\* an online run: the summary record emitted after a summary record of the
\* producer went to sender_q and not to writer_q
C37_WitnessOnline ==
    /\ ~settings.offline
    /\ RouterSummaries(plog.sentlog) # <<>>
    /\ RouterSummaries(writer_q) = <<>>
    /\ \E j \in 1..Len(plog.routed) : plog.routed[j].record.kind = "summary"


(***************************************************************************)
(* A log that ends inside a record of several chunks.                      *)
(***************************************************************************)
\* the first k chunks of the log read as a well-formed stream of records:
\* the complete records, the payload of the record left open, and whether
\* the chunk types follow FULL | FIRST MIDDLE* LAST
RECURSIVE Parsed(_)
Parsed(k) ==
    IF k = 0 THEN [recs |-> <<>>, part |-> <<>>, open |-> FALSE, ok |-> TRUE]
    ELSE LET p == Parsed(k - 1)
             dtype == wlog[k].chunks[1].dtype
             s == wlog[k].s
         IN IF ~p.ok THEN p
            ELSE IF ~p.open
            THEN IF dtype = LEVELDBLOG_FULL
                 THEN [p EXCEPT !.recs = Append(@, s)]
                 ELSE IF dtype = LEVELDBLOG_FIRST
                 THEN [p EXCEPT !.open = TRUE, !.part = s]
                 ELSE [p EXCEPT !.ok = FALSE]
            ELSE IF dtype = LEVELDBLOG_MIDDLE
            THEN [p EXCEPT !.part = @ \o s]
            ELSE IF dtype = LEVELDBLOG_LAST
            THEN [p EXCEPT !.recs = Append(@, p.part \o s),
                           !.open = FALSE, !.part = <<>>]
            ELSE [p EXCEPT !.ok = FALSE]

\* the file under scan is an intact log of single chunks that ends after a
\* FIRST chunk and any number of MIDDLE chunks, without the LAST
TruncatedLog ==
    /\ ds.mode = "scan"
    /\ env.corrupt = NoCorrupt
    /\ wlog # <<>>
    /\ \A k \in 1..Len(wlog) :
          /\ wlog[k].raw
          /\ wlog[k].exc = NoExc
          /\ Len(wlog[k].chunks) = 1
    /\ Parsed(Len(wlog)).ok
    /\ Parsed(Len(wlog)).open

\* C38: when the log ends after a FIRST chunk (and any MIDDLE chunks) with
\* no LAST chunk, the scan returns every complete record before the
\* truncated one, in order and with its payload, and then end-of-stream
\* (None) without an exception: the chunks of the truncated record are
\* never returned as a record.
C38_TruncatedRecord ==
    TruncatedLog =>
       LET complete == Parsed(Len(wlog)).recs
       IN /\ Len(rlog) <= Len(complete) + 1
          /\ \A i \in 1..Len(rlog) :
                IF i <= Len(complete)
                THEN rlog[i].kind = "data" /\ rlog[i].data = complete[i]
                ELSE /\ rlog[i].kind = "eof"
                     /\ rlog[i].data = <<>>
                     /\ rlog[i].exc = NoExc

\* a FULL record, then a FIRST chunk with payload and a MIDDLE chunk: the
\* scan returned the FULL record and then end-of-stream
C38_Witness ==
    /\ TruncatedLog
    /\ Len(wlog) = 3
    /\ wlog[1].chunks[1].dtype = LEVELDBLOG_FULL
    /\ wlog[2].chunks[1].dtype = LEVELDBLOG_FIRST
    /\ Len(wlog[2].s) = 6
    /\ wlog[3].chunks[1].dtype = LEVELDBLOG_MIDDLE
    /\ Len(rlog) = 2
    /\ rlog[1].kind = "data"
    /\ rlog[1].data = wlog[1].s
    /\ rlog[2].kind = "eof"


(***************************************************************************)
(* A summary record of which one item fails.                               *)
(***************************************************************************)
\* what the first n items of the record make of the summary: the updates
\* in order, then the removes in order
AppliedItems(summary, record, n) ==
    LET update == record.items.update
        remove == record.items.remove
        nu == IF n < Len(update) THEN n ELSE Len(update)
        u == ApplyItems(summary, SubSeq(update, 1, nu), FALSE)
    IN IF n <= Len(update) \/ u.exc # NoExc THEN u
       ELSE ApplyItems(u.d, SubSeq(remove, 1, n - Len(update)), TRUE)

\* the item cannot be applied to the summary: it sets both keys, its key
\* path goes through a node the summary does not have, or it removes a
\* key the summary does not have
ItemFails(summary, item, remove) ==
    \/ BothSet(item)
    \/ MissingIntermediate(summary, item)
    \/ remove /\ Lookup(summary, PathOf(item)) = Missing

\* item n of the record the router took at step e is the first that fails
FailsAt(e, n) ==
    LET before == AppliedItems(e.before.consolidated_summary, e.record, n - 1)
    IN /\ before.exc = NoExc
       /\ ItemFails(before.d, ItemsOf(e.record)[n],
                    n > Len(e.record.items.update))

\* C39: handle_summary applies the update items in order and then the
\* remove items in order.  When item n is the first that fails (both keys
\* set, a missing intermediate node, or the removal of an absent key), the
\* handler raises, the consolidated summary is what the n - 1 items before
\* it made of it, no later item is applied, and no summary record is put
\* on either queue for that record.  When no item fails the summary is
\* what all the items made of it.
C39_PartialSummary ==
    \A i \in 1..Len(plog.routed) :
        LET e == plog.routed[i]
            summary == e.before.consolidated_summary
            items == ItemsOf(e.record)
        IN e.record.kind = "summary" =>
             /\ \A n \in 1..Len(items) :
                   FailsAt(e, n) =>
                      /\ e.exc # NoExc
                      /\ e.after.consolidated_summary
                            = AppliedItems(summary, e.record, n - 1).d
                      /\ e.sent = <<>>
                      /\ e.written = <<>>
             /\ e.exc = NoExc =>
                   /\ \A n \in 1..Len(items) : ~FailsAt(e, n)
                   /\ e.after.consolidated_summary
                         = AppliedItems(summary, e.record, Len(items)).d

\* the second of three updates failed on the empty summary: b is set, y is
\* not, b was not removed, and nothing was emitted
C39_Witness ==
    /\ Len(plog.routed) = 1
    /\ plog.routed[1].record.kind = "summary"
    /\ Len(plog.routed[1].record.items.update) = 3
    /\ FailsAt(plog.routed[1], 2)
    /\ plog.routed[1].exc # NoExc
    /\ hm.consolidated_summary = [b |-> Num(3)]
    /\ sender_q = <<>>
    /\ writer_q = <<>>

\* the second of three removes failed: y was removed, b was not
C39_WitnessRemove ==
    /\ Len(plog.routed) = 1
    /\ plog.routed[1].record.kind = "summary"
    /\ Len(plog.routed[1].record.items.remove) = 3
    /\ FailsAt(plog.routed[1], 4)
    /\ plog.routed[1].exc = "KeyError"
    /\ hm.consolidated_summary = [b |-> Num(3)]
    /\ plog.routed[1].sent = <<>>


(***************************************************************************)
(* The teardown of Backend.cleanup.                                        *)
(***************************************************************************)
\* no thread is inside cleanup
AllReturned == \A t \in Threads : backend_obj.pc[t] = "idle"

\* C40: however many times cleanup is called, and from however many
\* threads, the interface join, the join of the internal process and the
\* close of the record and result queues are each performed at most once,
\* and exactly once when the calls made have returned.
C40_TeardownOnce ==
    /\ \A c \in TeardownCalls : backend_obj.n[c] <= 1
    /\ (AllReturned /\ backend_obj.calls > 0) =>
          \A c \in TeardownCalls : backend_obj.n[c] = 1

\* calls of cleanup that never overlap perform each teardown call once
C40_SequentialOnce ==
    ~backend_obj.overlap => C40_TeardownOnce

\* three calls one after the other: the teardown was performed once
C40_SequentialWitness ==
    /\ ~backend_obj.overlap
    /\ backend_obj.calls = MaxCalls
    /\ AllReturned
    /\ \A c \in TeardownCalls : backend_obj.n[c] = 1

\* two threads were inside cleanup at once and the interface was joined
\* twice
C40_RaceWitness ==
    /\ backend_obj.overlap
    /\ backend_obj.calls = 2
    /\ backend_obj.n["interface.join"] = 2

====
